---- MODULE Spec2Model ----
(***************************************************************************)
(* A model of the documentation migration pipeline.  The repository holds  *)
(* the coexisting builds of the orchestrator:                              *)
(*   "modular": the entry script of unnamed/part_002 with the runPipeline  *)
(*              of src/pipeline.mjs:543-800 (shared report object, upload  *)
(*              and rewrite of images, move-map read by the entry script); *)
(*   "options": the entry script of src/moveMap.mjs:216-295 with the       *)
(*              runPipeline of src/pipeline.mjs:57-350 (own report object, *)
(*              MISSING IMAGE placeholders, move-map with a stat check);   *)
(*   "monolith": the single-file script convert-to-readme-mdx.mjs (its own *)
(*              copies of every stage, no move-map, upload and rewrite).   *)
(* Text is modelled as sequences of one-character strings; a document is   *)
(* its frontmatter, the lines of its body, the constructs found in it and  *)
(* the image occurrences it holds, in source order.                        *)
(***************************************************************************)
EXTENDS Integers, Sequences, FiniteSets, TLC

(* ------------------------------ bounds --------------------------------- *)
MaxDocs == 2
MaxRows == 2
MaxLines == 2
MaxOcc == 2
MaxItems == 2
MaxHandlers == 2
MaxTokens == 5
MaxLabel == 2

(* ------------------------------ text ----------------------------------- *)
RECURSIVE LStrip(_)
LStrip(s) == IF s # <<>> /\ Head(s) = " " THEN LStrip(Tail(s)) ELSE s

RECURSIVE RStrip(_)
RStrip(s) == IF s # <<>> /\ s[Len(s)] = " " THEN RStrip(SubSeq(s, 1, Len(s) - 1)) ELSE s

Trim(s) == RStrip(LStrip(s))

LowerChar(c) ==
  CASE c = "A" -> "a" [] c = "B" -> "b" [] c = "D" -> "d" [] c = "T" -> "t" [] OTHER -> c

ToLowerCase(s) == [i \in DOMAIN s |-> LowerChar(s[i])]

IsPrefix(p, s) == Len(p) <= Len(s) /\ SubSeq(s, 1, Len(p)) = p

Min(S) == CHOOSE x \in S : \A y \in S : x <= y

RECURSIVE Dedup(_)
Dedup(s) ==
  IF s = <<>> THEN <<>>
  ELSE LET r == Dedup(SubSeq(s, 1, Len(s) - 1))
           x == s[Len(s)]
       IN IF \E i \in DOMAIN r : r[i] = x THEN r ELSE Append(r, x)

SeqRange(s) == {s[i] : i \in DOMAIN s}

SeqsUpTo(S, n) == UNION {[1..k -> S] : k \in 0..n}

(* --------------------------- title derivation --------------------------- *)
Untitled == <<"U", "n", "t", "i", "t", "l", "e", "d">>

\* /^\s*#\s+(.+?)\s*$/m can start a match on line i: the first non-blank
\* character of the line is "#", and a white-space character follows it (a
\* blank of the same line, or the line break when the line ends there).
HeadingOpens(body, i) ==
  LET t == LStrip(body[i])
  IN /\ t # <<>>
     /\ Head(t) = "#"
     /\ IF Tail(t) = <<>> THEN i < Len(body) ELSE Head(Tail(t)) = " "

\* The capture group of the first match, trimmed: \s+ runs over blanks and line
\* breaks alike, so the capture is the first non-blank text after the "#",
\* on the same line or on a later one.
H1Capture(body) ==
  LET opens == {i \in DOMAIN body : HeadingOpens(body, i)}
  IN IF opens = {} THEN <<>>
     ELSE LET l == Min(opens)
              segs == <<Tail(LStrip(body[l]))>> \o SubSeq(body, l + 1, Len(body))
              full == {k \in DOMAIN segs : Trim(segs[k]) # <<>>}
          IN IF full = {} THEN <<>> ELSE Trim(segs[Min(full)])

\* a || b on strings
OrElse(a, b) == IF a # <<>> THEN a ELSE b

DeriveTitle(fm, body) ==
  OrElse(fm.sidebar_label, OrElse(fm.title, OrElse(H1Capture(body), Untitled)))

BuildReadmeFM(customerFM, title) ==
  [title |-> title, deprecated |-> FALSE, hidden |-> FALSE, robots |-> "index"]

(* ------------------------------ move-map -------------------------------- *)
\* A row of the CSV after parseCsvLine: the file column (a file name) and the
\* destination column made absolute (<<>> when the column is empty).
NoDir == <<>>

RECURSIVE CountRows(_, _)
CountRows(rows, key) ==
  IF rows = <<>> THEN 0
  ELSE (IF rows[1] = key THEN 1 ELSE 0) + CountRows(Tail(rows), key)

FileKey(name) == [stem |-> ToLowerCase(name.stem), ext |-> name.ext]

\* the rows the modular reader keeps: both columns non-empty
KeptRowsModular(rows) == SelectSeq(rows, LAMBDA r : r.dest # NoDir)

RowKeys(rows) == [i \in DOMAIN rows |-> FileKey(rows[i].file)]

DupesDifferentDest(rows) ==
  {k \in SeqRange(RowKeys(rows)) :
     \E i, j \in DOMAIN rows :
        FileKey(rows[i].file) = k /\ FileKey(rows[j].file) = k /\ rows[i].dest # rows[j].dest}

DupesOf(rows) ==
  {k \in SeqRange(RowKeys(rows)) : CountRows(RowKeys(rows), k) > 1}

\* map.set in row order: the last row of a key wins
MapOf(rows) ==
  [k \in SeqRange(RowKeys(rows)) |->
     rows[CHOOSE i \in DOMAIN rows :
            /\ FileKey(rows[i].file) = k
            /\ \A j \in DOMAIN rows : FileKey(rows[j].file) = k => j <= i].dest]

ReadMoveMapCsvModular(rows) ==
  [map |-> MapOf(KeptRowsModular(rows)), dupes |-> DupesOf(KeptRowsModular(rows))]

ReadMoveMapCsvOptions(rows) ==
  [map |-> MapOf(rows), dupes |-> DupesOf(rows)]

(* ------------------------------ images ---------------------------------- *)
ImagesRoot == <<"/", "s", "/">>

RECURSIVE StripLeadingSlashes(_)
StripLeadingSlashes(s) ==
  IF s # <<>> /\ Head(s) = "/" THEN StripLeadingSlashes(Tail(s)) ELSE s

RECURSIVE SplitSlash(_)
SplitSlash(s) ==
  LET cut == {i \in DOMAIN s : s[i] = "/"}
  IN IF cut = {} THEN <<s>>
     ELSE <<SubSeq(s, 1, Min(cut) - 1)>> \o SplitSlash(SubSeq(s, Min(cut) + 1, Len(s)))

RECURSIVE JoinSlash(_)
JoinSlash(parts) ==
  IF Len(parts) = 1 THEN parts[1]
  ELSE parts[1] \o <<"/">> \o JoinSlash(Tail(parts))

Basename(p) == LET parts == SplitSlash(p) IN parts[Len(parts)]

\* buildImageIndex: index is the list of files, as paths relative to the root
AbsOf(rel) == ImagesRoot \o rel

ByRelFromRoot(index, rel) ==
  IF \E i \in DOMAIN index : index[i] = rel THEN AbsOf(rel) ELSE <<>>

ByBasename(index, base) ==
  LET hits == SelectSeq(index, LAMBDA f : Basename(f) = base)
  IN [i \in DOMAIN hits |-> AbsOf(hits[i])]

RECURSIVE longestCommonSuffix(_, _)
longestCommonSuffix(a, b) ==
  IF a # <<>> /\ b # <<>> /\ a[Len(a)] = b[Len(b)]
  THEN 1 + longestCommonSuffix(SubSeq(a, 1, Len(a) - 1), SubSeq(b, 1, Len(b) - 1))
  ELSE 0

\* variant of resolveLocalImageSmart: no suffix of the reference is tried
resolveWithoutSuffixes(originalPath, index) ==
  IF originalPath = <<>> THEN <<>>
  ELSE
    LET relNoLead == StripLeadingSlashes(originalPath)
        exact == ByRelFromRoot(index, relNoLead)
        parts == SplitSlash(relNoLead)
        candidates == ByBasename(index, parts[Len(parts)])
        score(k) == longestCommonSuffix(candidates[k], relNoLead)
        best == CHOOSE k \in DOMAIN candidates :
                  \A j \in DOMAIN candidates :
                     score(j) < score(k) \/ (score(j) = score(k) /\ k <= j)
    IN IF exact # <<>> THEN exact
       ELSE IF Len(candidates) >= 1 THEN candidates[best]
       ELSE <<>>

resolveLocalImageSmart(originalPath, index) ==
  IF originalPath = <<>> THEN <<>>
  ELSE
    LET relNoLead == StripLeadingSlashes(originalPath)
        exact == ByRelFromRoot(index, relNoLead)
        parts == SplitSlash(relNoLead)
        subOf(i) == JoinSlash(SubSeq(parts, i, Len(parts)))
        tier2 == {i \in 1..(Len(parts) - 1) : ByRelFromRoot(index, subOf(i)) # <<>>}
        candidates == ByBasename(index, parts[Len(parts)])
        score(k) == longestCommonSuffix(candidates[k], relNoLead)
        best == CHOOSE k \in DOMAIN candidates :
                  \A j \in DOMAIN candidates :
                     score(j) < score(k) \/ (score(j) = score(k) /\ k <= j)
    IN IF exact # <<>> THEN exact
       ELSE IF tier2 # {} THEN ByRelFromRoot(index, subOf(Min(tier2)))
       ELSE IF Len(candidates) = 1 THEN candidates[1]
       ELSE IF Len(candidates) > 1 THEN candidates[best]
       ELSE <<>>

NoUrl == [of |-> <<>>, n |-> 0]

LogRow(type, file, imgs) == [type |-> type, file |-> file, imgs |-> imgs]

CacheGet(cache, local) ==
  IF \E e \in cache : e.local = local
  THEN (CHOOSE e \in cache : e.local = local).url
  ELSE NoUrl

\* variant of UploadOne: every resolved reference goes to the remote service
UploadOneUncached(up, orig, index, ok, relFile) ==
  LET localAbs == resolveLocalImageSmart(orig, index)
      fresh == [of |-> localAbs, n |-> up.uploads + 1]
  IN IF localAbs = <<>>
     THEN [up EXCEPT !.rows = Append(@, LogRow("LOCAL_IMAGE_NOT_FOUND", relFile, <<orig>>))]
     ELSE IF ok
     THEN [up EXCEPT !.results = Append(@, [orig |-> orig, local |-> localAbs, url |-> fresh]),
                     !.cache = @ \cup {[local |-> localAbs, url |-> fresh]},
                     !.uploads = @ + 1]
     ELSE [up EXCEPT !.rows = Append(@, LogRow("REMOTE_IMAGE_UPLOAD_FAILED", relFile, <<orig>>)),
                     !.uploads = @ + 1]

\* variant of UploadOne: a failed upload leaves no row
UploadOneSilent(up, orig, index, ok, relFile) ==
  LET localAbs == resolveLocalImageSmart(orig, index)
      cached == CacheGet(up.cache, localAbs)
      fresh == [of |-> localAbs, n |-> up.uploads + 1]
  IN IF localAbs = <<>>
     THEN [up EXCEPT !.rows = Append(@, LogRow("LOCAL_IMAGE_NOT_FOUND", relFile, <<orig>>))]
     ELSE IF cached # NoUrl
     THEN [up EXCEPT !.results = Append(@, [orig |-> orig, local |-> localAbs, url |-> cached])]
     ELSE IF ok
     THEN [up EXCEPT !.results = Append(@, [orig |-> orig, local |-> localAbs, url |-> fresh]),
                     !.cache = @ \cup {[local |-> localAbs, url |-> fresh]},
                     !.uploads = @ + 1]
     ELSE [up EXCEPT !.uploads = @ + 1]

\* uploadImageToReadme: the cached URL when there is one, else a remote upload
\* that succeeds (ok) with a fresh hosted URL or throws.  up is the state of
\* the loop of uploadImagesForDocSmart; the result is the state after the
\* try/catch of one reference.
UploadOne(up, orig, index, ok, relFile) ==
  LET localAbs == resolveLocalImageSmart(orig, index)
      cached == CacheGet(up.cache, localAbs)
      fresh == [of |-> localAbs, n |-> up.uploads + 1]
  IN IF localAbs = <<>>
     THEN [up EXCEPT !.rows = Append(@, LogRow("LOCAL_IMAGE_NOT_FOUND", relFile, <<orig>>))]
     ELSE IF cached # NoUrl
     THEN [up EXCEPT !.results = Append(@, [orig |-> orig, local |-> localAbs, url |-> cached])]
     ELSE IF ok
     THEN [up EXCEPT !.results = Append(@, [orig |-> orig, local |-> localAbs, url |-> fresh]),
                     !.cache = @ \cup {[local |-> localAbs, url |-> fresh]},
                     !.uploads = @ + 1]
     ELSE [up EXCEPT !.rows = Append(@, LogRow("REMOTE_IMAGE_UPLOAD_FAILED", relFile, <<orig>>)),
                     !.uploads = @ + 1]

UniqueRefs(originalPaths) == Dedup(SelectSeq(originalPaths, LAMBDA p : p # <<>>))

RECURSIVE UploadLoop(_, _, _, _, _, _)
UploadLoop(up, unique, k, index, oks, relFile) ==
  IF k > Len(unique) THEN up
  ELSE UploadLoop(UploadOne(up, unique[k], index, oks[k], relFile),
                  unique, k + 1, index, oks, relFile)

\* uploadImagesForDocSmart; oks[k] tells whether the remote upload of the k-th
\* distinct reference would succeed
uploadImagesForDocSmart(originalPaths, index, cache, uploads, oks, relFile) ==
  UploadLoop([results |-> <<>>, rows |-> <<>>, cache |-> cache, uploads |-> uploads],
             UniqueRefs(originalPaths), 1, index, oks, relFile)

(* An image occurrence of the text: its syntax, the path written in it, and,  *)
(* once rewritten, the hosted URL it points to.  Forms: "md" ![..](path),     *)
(* "img" <img src="path">, "useBase" src={useBaseUrl('path')}, "zoom"         *)
(* <ImageZoom src=...>, "placeholder" <!--IMAGE_PLACEHOLDER:path-->,          *)
(* "missing" **MISSING IMAGE!** path, "comment" an MDX comment expression     *)
(* holding IMAGE_PLACEHOLDER:path, "imgtag" <img src="url" alt="" /> followed *)
(* by what the pattern left of the matched text.                              *)
Occ(form, path) == [form |-> form, path |-> path, url |-> NoUrl]

\* collectInlineImageUrlsFromText: a Set filled pattern by pattern
PathsOfForms(occ, forms) ==
  LET sel == SelectSeq(occ, LAMBDA o : o.form \in forms)
  IN [i \in DOMAIN sel |-> sel[i].path]

collectInlineImageUrlsFromText(occ, withPlaceholder) ==
  Dedup(SelectSeq(
    PathsOfForms(occ, {"md"}) \o PathsOfForms(occ, {"img"})
      \o PathsOfForms(occ, {"useBase", "zoomUseBase"})
      \o (IF withPlaceholder THEN PathsOfForms(occ, {"placeholder"}) ELSE <<>>),
    LAMBDA p : p # <<>>))

\* remarkReplaceImageZoomWithPlaceholder then remarkCollectMarkdownImages push
\* onto the same array
CollectedImageUrls(occ, withPlaceholder) ==
  collectInlineImageUrlsFromText(occ, withPlaceholder)
    \o SelectSeq(PathsOfForms(occ, {"zoom", "zoomUseBase"}), LAMBDA p : p # <<>>)
    \o SelectSeq(PathsOfForms(occ, {"md"}), LAMBDA p : p # <<>>)

\* Tree stages of the modular build on one occurrence: the ImageZoom becomes an
\* html node <!--IMAGE_PLACEHOLDER:path-->, and mdFixBangAndHtmlComments retypes
\* every html node that is a complete comment into an MDX comment expression.
ImageZoomToPlaceholder(o) ==
  IF o.form \in {"zoom", "zoomUseBase"} THEN Occ("placeholder", o.path) ELSE o

FixHtmlComment(o) ==
  IF o.form = "placeholder" THEN Occ("comment", o.path) ELSE o

TreeStagesModular(occ) == [i \in DOMAIN occ |-> FixHtmlComment(ImageZoomToPlaceholder(occ[i]))]

\* One mapping pair applied to one occurrence, pattern by pattern (part_002
\* 91-116): the placeholder comment (exact), the MISSING IMAGE marker (the
\* pattern ends with the path, so it matches a prefix of a longer path), the
\* <img src> attribute (exact, inside the quotes).  The third and the fifth
\* pattern hold "$begin:math:...$" text and match nothing.
RewriteEveryImgOcc(o, orig, url) ==
  IF o.form = "placeholder" /\ o.path = orig
  THEN [form |-> "imgtag", path |-> <<>>, url |-> url]
  ELSE IF o.form = "missing" /\ IsPrefix(orig, o.path)
  THEN [form |-> "imgtag", path |-> SubSeq(o.path, Len(orig) + 1, Len(o.path)), url |-> url]
  ELSE IF o.form = "img" /\ o.url = NoUrl
  THEN [form |-> "img", path |-> <<>>, url |-> url]
  ELSE o

RewriteOcc(o, orig, url) ==
  IF o.form = "placeholder" /\ o.path = orig
  THEN [form |-> "imgtag", path |-> <<>>, url |-> url]
  ELSE IF o.form = "missing" /\ IsPrefix(orig, o.path)
  THEN [form |-> "imgtag", path |-> SubSeq(o.path, Len(orig) + 1, Len(o.path)), url |-> url]
  ELSE IF o.form = "img" /\ o.path = orig
  THEN [form |-> "img", path |-> <<>>, url |-> url]
  ELSE o

RECURSIVE rewriteAllImageOccurrences(_, _)
rewriteAllImageOccurrences(occ, mapping) ==
  IF mapping = <<>> THEN occ
  ELSE rewriteAllImageOccurrences(
         IF mapping[1].orig = <<>> \/ mapping[1].url = NoUrl THEN occ
         ELSE [i \in DOMAIN occ |-> RewriteOcc(occ[i], mapping[1].orig, mapping[1].url)],
         Tail(mapping))

\* the same pair applied by the single-file script
\* (convert-to-readme-mdx.mjs:1150-1168), whose five patterns are intact: the
\* Markdown image and the useBaseUrl call are rewritten as well
RewriteOccMono(o, orig, url) ==
  IF o.form = "placeholder" /\ o.path = orig
  THEN [form |-> "imgtag", path |-> <<>>, url |-> url]
  ELSE IF o.form = "missing" /\ IsPrefix(orig, o.path)
  THEN [form |-> "imgtag", path |-> SubSeq(o.path, Len(orig) + 1, Len(o.path)), url |-> url]
  ELSE IF o.form \in {"md", "img", "useBase"} /\ o.path = orig
  THEN [form |-> o.form, path |-> <<>>, url |-> url]
  ELSE o

RECURSIVE rewriteAllImageOccurrencesMono(_, _)
rewriteAllImageOccurrencesMono(occ, mapping) ==
  IF mapping = <<>> THEN occ
  ELSE rewriteAllImageOccurrencesMono(
         IF mapping[1].orig = <<>> \/ mapping[1].url = NoUrl THEN occ
         ELSE [i \in DOMAIN occ |-> RewriteOccMono(occ[i], mapping[1].orig, mapping[1].url)],
         Tail(mapping))

\* replaceAllImagesWithPlaceholder of the options build: every Markdown image,
\* <img> tag and src={useBaseUrl()} becomes a MISSING IMAGE marker
replaceAllImagesWithPlaceholder(occ) ==
  [i \in DOMAIN occ |->
     IF occ[i].form \in {"md", "img", "useBase"} THEN Occ("missing", occ[i].path) ELSE occ[i]]

\* remarkReplaceImageZoom of the options build
TreeStagesOptions(occ) ==
  [i \in DOMAIN occ |->
     IF occ[i].form \in {"zoom", "zoomUseBase"} THEN Occ("missing", occ[i].path)
     ELSE FixHtmlComment(occ[i])]

(* --------------------------- raw markup nodes --------------------------- *)
\* A raw markup node of the parsed tree: its text is a sequence of items, each
\* a complete <script>...</script> block or an element <name on..=..>...</name>
\* with the value kinds of its on-handler attributes in the order of the text;
\* wrap tells whether the whole text is one <!-- ... --> comment or a <!...>
\* declaration.  A script block has the value of its src attribute and its
\* code, trimmed (each <<>> when there is none).
Script(src, code) == [kind |-> "script", name |-> <<>>, on |-> <<>>, src |-> src, code |-> code]

ScriptBlock == Script(<<>>, <<"x">>)

ScriptRemoved == [Script(<<>>, <<>>) EXCEPT !.kind = "scriptRemoved"]

Element(name, on) == [kind |-> "element", name |-> name, on |-> on, src |-> <<>>, code |-> <<>>]

HtmlNode(wrap, items) == [type |-> "html", wrap |-> wrap, items |-> items]

\* mdFixBangAndHtmlComments on one node
FixBangAndHtmlComment(n) ==
  IF n.type # "html" THEN n
  ELSE IF n.wrap = "comment" THEN [n EXCEPT !.type = "mdxFlowExpression", !.wrap = "mdxComment"]
  ELSE IF n.wrap = "decl" THEN [n EXCEPT !.wrap = "declEscaped"]
  ELSE n

\* the second replace of remarkStripScriptsAndHandlers: a match starts at the
\* "<" of a tag and ends behind the first handler, and the search goes on
\* behind the match, so that one handler of each tag is removed
FirstHandlerOnly(it) == IF it.on = <<>> THEN it ELSE [it EXCEPT !.on = Tail(@)]

StripItem(it) == IF it.kind = "script" THEN ScriptRemoved ELSE FirstHandlerOnly(it)

\* remarkStripScriptsAndHandlers on one node: html nodes only
StripScriptsAndHandlers(n) ==
  IF n.type # "html" THEN n
  ELSE [n EXCEPT !.items = [i \in DOMAIN n.items |-> StripItem(n.items[i])]]

\* what the first replace pushes onto jsRemoved for one script block
ScriptEntry(it) ==
  IF it.src # <<>> THEN <<[entry |-> "SCRIPT SRC", of |-> it.src]>>
  ELSE IF it.code # <<>> THEN <<[entry |-> "SCRIPT INLINE CODE", of |-> it.code]>>
  ELSE <<>>

\* what the second replace pushes for the tag of one item
HandlerEntry(it) ==
  IF it.kind = "element" /\ it.on # <<>> THEN <<[entry |-> "INLINE HANDLER", of |-> it.name]>>
  ELSE <<>>

RECURSIVE ScriptEntries(_)
ScriptEntries(items) ==
  IF items = <<>> THEN <<>>
  ELSE (IF Head(items).kind = "script" THEN ScriptEntry(Head(items)) ELSE <<>>)
         \o ScriptEntries(Tail(items))

RECURSIVE HandlerEntries(_)
HandlerEntries(items) ==
  IF items = <<>> THEN <<>> ELSE HandlerEntry(Head(items)) \o HandlerEntries(Tail(items))

\* the entries remarkStripScriptsAndHandlers pushes onto jsRemoved for one
\* node: those of the script blocks, then those of the handlers
jsRemovedOf(n) ==
  IF n.type # "html" THEN <<>> ELSE ScriptEntries(n.items) \o HandlerEntries(n.items)

\* what the stage pushes onto jsRemoved is not empty
JsRemoved(n) == jsRemovedOf(n) # <<>>

TableTags == {<<"t", "a", "b", "l", "e">>, <<"t", "h", "e", "a", "d">>,
              <<"t", "b", "o", "d", "y">>, <<"t", "r">>, <<"t", "h">>, <<"t", "d">>}

Capitalized(name) == name # <<>> /\ name[1] # LowerChar(name[1])

\* variant of keepHtmlIf: the table tags only
keepHtmlIfTable(items) ==
  \E i \in DOMAIN items : items[i].kind = "element" /\ ToLowerCase(items[i].name) \in TableTags

\* keepHtmlIf (pipeline.mjs:631-638): a table tag in any case, or a capitalized tag
keepHtmlIf(items) ==
  \E i \in DOMAIN items :
    /\ items[i].kind = "element"
    /\ \/ ToLowerCase(items[i].name) \in TableTags
       \/ Capitalized(items[i].name)

\* the elements remarkConvertSelectedHtmlToMd rewrites: the tag without any
\* attribute, of the names the patterns list
ConvertedTags ==
  {<<"h", d>> : d \in {"1", "2", "3", "4", "5", "6"}}
    \cup {<<"p">>, <<"b", "r">>, <<"b">>, <<"s", "t", "r", "o", "n", "g">>, <<"i">>,
          <<"e", "m">>, <<"u", "l">>, <<"o", "l">>}

Convertible(it) == it.kind = "element" /\ ToLowerCase(it.name) \in ConvertedTags /\ it.on = <<>>

ConvertItem(it) == IF Convertible(it) THEN [it EXCEPT !.kind = "markdown"] ELSE it

\* remarkConvertSelectedHtmlToMd on one node
ConvertSelectedHtmlToMd(n) ==
  IF n.type # "html" \/ keepHtmlIf(n.items) THEN n
  ELSE IF \E i \in DOMAIN n.items : Convertible(n.items[i])
  THEN [n EXCEPT !.type = "text", !.items = [i \in DOMAIN n.items |-> ConvertItem(n.items[i])]]
  ELSE n

StrippedHtml(n) ==
  LET m == StripScriptsAndHandlers(FixBangAndHtmlComment(n))
  IN ConvertSelectedHtmlToMd(m) # m

\* the three stages on the raw markup nodes, in the order of the chain
HtmlStages(html) ==
  [i \in DOMAIN html |->
     ConvertSelectedHtmlToMd(StripScriptsAndHandlers(FixBangAndHtmlComment(html[i])))]

\* what the stages collect in jsRemoved and strippedHtmlSnippets
HtmlFeats(html) ==
  (IF \E i \in DOMAIN html : StrippedHtml(html[i]) THEN {"html"} ELSE {})
    \cup (IF \E i \in DOMAIN html : JsRemoved(FixBangAndHtmlComment(html[i])) THEN {"js"} ELSE {})

(* ------------------------------ tabbed blocks --------------------------- *)
\* The serialized text as the tabs transform reads it: a sequence of tokens,
\* the opening <Tabs values={[...]}> with the objects of its values array,
\* </Tabs>, the opening <TabItem ...> with its attributes in the order of the
\* text, </TabItem>, the emitted <Tab title="..."> and </Tab>, and other text.
\* A string is a sequence of characters; "<b>" stands for a piece of markup,
\* which holds a ">".
Token(t, attrs, title) == [t |-> t, attrs |-> attrs, title |-> title]

TabsOpen(values) == Token("Tabs", values, <<>>)

\* <Tabs values={[...]> : the brace that closes the values expression is missing
TabsUnclosed(values) == Token("TabsUnclosed", values, <<>>)

\* pieces of other text: the word values, an opening and a closing brace
Piece(p) == Token(p, <<>>, <<>>)

TabsClose == Token("/Tabs", <<>>, <<>>)

TabItemOpen(attrs) == Token("TabItem", attrs, <<>>)

TabItemClose == Token("/TabItem", <<>>, <<>>)

TabOpen(title) == Token("Tab", <<>>, title)

TabClose == Token("/Tab", <<>>, <<>>)

\* what is left of an opening <TabItem ...> behind the first ">" inside it
AttrRest(attrs) == Token("text", attrs, <<>>)

Attr(name, quote, val) == [name |-> name, quote |-> quote, val |-> val]

Markup == "<b>"

\* the leftmost of the positions that match, not before from; 0 when none does
FirstIndex(matches, from) ==
  LET hits == {i \in matches : i >= from}
  IN IF hits = {} THEN 0 ELSE Min(hits)

\* sanitizeLabel: the markup is taken out, an empty rest gives the fallback
sanitizeLabel(raw, fallback) ==
  LET withoutTags == SelectSeq(raw, LAMBDA c : c # Markup)
  IN IF withoutTags = <<>> THEN fallback ELSE withoutTags

EscapeChar(c) == CASE c = "&" -> "&amp;" [] c = "\"" -> "&quot;" [] OTHER -> c

escapeHtmlAttribute(str) == [i \in DOMAIN str |-> EscapeChar(str[i])]

\* ([^>]*) of the item pattern: the attribute text ends at the first ">", so
\* the attributes in front of one that holds markup are read whole, that one
\* is cut open, and the rest falls into the body
AttrCut(attrs) == FirstIndex({i \in DOMAIN attrs : \E k \in DOMAIN attrs[i].val : attrs[i].val[k] = Markup}, 1)

TabItemAttributes(attrs) ==
  IF AttrCut(attrs) = 0 THEN attrs ELSE SubSeq(attrs, 1, AttrCut(attrs) - 1)

\* getAttr: the double-quoted form first, then the single-quoted, then braces
getAttrQuoted(attrs, name, quote) ==
  FirstIndex({i \in DOMAIN attrs : attrs[i].name = name /\ attrs[i].quote = quote}, 1)

getAttr(attrs, name) ==
  IF getAttrQuoted(attrs, name, "dq") # 0 THEN attrs[getAttrQuoted(attrs, name, "dq")].val
  ELSE IF getAttrQuoted(attrs, name, "sq") # 0 THEN attrs[getAttrQuoted(attrs, name, "sq")].val
  ELSE IF getAttrQuoted(attrs, name, "brace") # 0
  THEN attrs[getAttrQuoted(attrs, name, "brace")].val
  ELSE <<>>

\* buildLabelMap and Map.get: the last object with the value decides; an
\* object without a value is skipped
labelByValue(values, v) ==
  LET hits == {i \in DOMAIN values : values[i].value # <<>> /\ values[i].value = v}
  IN IF hits = {} THEN <<>>
     ELSE LET i == CHOOSE h \in hits : \A g \in hits : g <= h
          IN sanitizeLabel(values[i].label, values[i].value)

TabWord == <<"T", "a", "b">>

\* tabs.mjs:27-30
TabTitle(tabItemAttributes, values) ==
  LET valueAttr == getAttr(tabItemAttributes, "value")
      rawLabel == getAttr(tabItemAttributes, "label")
      preferredTitleSource ==
        IF rawLabel # <<>> THEN rawLabel
        ELSE IF valueAttr # <<>> THEN labelByValue(values, valueAttr)
        ELSE <<>>
  IN sanitizeLabel(preferredTitleSource, IF valueAttr # <<>> THEN valueAttr ELSE TabWord)

\* one rendered tab: the opening with the escaped title, the body, the closing
RenderTab(attrs, body, values) ==
  <<TabOpen(escapeHtmlAttribute(TabTitle(TabItemAttributes(attrs), values)))>>
    \o (IF AttrCut(attrs) = 0 THEN <<>>
        ELSE <<AttrRest(SubSeq(attrs, AttrCut(attrs), Len(attrs)))>>)
    \o body
    \o <<TabClose>>

\* the items of the inner content, from left to right: an opening <TabItem>
\* and the first </TabItem> behind it
RECURSIVE renderedTabs(_, _, _)
renderedTabs(inner, from, values) ==
  LET k == FirstIndex({i \in DOMAIN inner : inner[i].t = "TabItem"}, from)
      l == IF k = 0 THEN 0 ELSE FirstIndex({i \in DOMAIN inner : inner[i].t = "/TabItem"}, k + 1)
  IN IF l = 0 THEN <<>>
     ELSE <<RenderTab(inner[k].attrs, SubSeq(inner, k + 1, l - 1), values)>>
            \o renderedTabs(inner, l + 1, values)

RECURSIVE Flatten(_)
Flatten(seqs) == IF seqs = <<>> THEN <<>> ELSE Head(seqs) \o Flatten(Tail(seqs))

\* What extractValuesArrayFromOpeningTag looks at in a piece of text, in the
\* order of the text: the word values, the braces, and every ">".
GtMarks(str) == [i \in DOMAIN SelectSeq(str, LAMBDA c : c = Markup) |-> ">"]

AttrMarks(a) ==
  IF a.quote = "brace" THEN <<"{">> \o GtMarks(a.val) \o <<"}">> ELSE GtMarks(a.val)

ObjectMarks(values) ==
  Flatten([i \in DOMAIN values |-> <<"{">> \o GtMarks(values[i].label) \o <<"}">>])

Marks(tok) ==
  CASE tok.t = "Tabs" ->
         IF tok.attrs = <<>> THEN <<">">>
         ELSE <<"values", "{">> \o ObjectMarks(tok.attrs) \o <<"}", ">">>
    [] tok.t = "TabsUnclosed" -> <<"values", "{">> \o ObjectMarks(tok.attrs) \o <<">">>
    [] tok.t \in {"TabItem", "text"} ->
         Flatten([i \in DOMAIN tok.attrs |-> AttrMarks(tok.attrs[i])]) \o <<">">>
    [] tok.t \in {"values", "{", "}"} -> <<tok.t>>
    [] OTHER -> <<">">>

\* the marks of a block, each with the index of the token that holds it
FlatMarks(tabsBlock) ==
  Flatten([i \in DOMAIN tabsBlock |->
             [k \in DOMAIN Marks(tabsBlock[i]) |-> [tok |-> i, m |-> Marks(tabsBlock[i])[k]]]])

\* the loop of tabs.mjs:67-76: the closing brace at which the depth is back
\* at 0; 0 when the text ends first
RECURSIVE BraceEnd(_, _, _)
BraceEnd(marks, i, depth) ==
  IF i > Len(marks) THEN 0
  ELSE LET d == depth + (CASE marks[i].m = "{" -> 1 [] marks[i].m = "}" -> -1 [] OTHER -> 0)
       IN IF marks[i].m = "}" /\ d = 0 THEN i ELSE BraceEnd(marks, i + 1, d)

\* variant of extractValuesArrayFromOpeningTag: the tag ends at the first ">"
extractFirstGt(tabsBlock) ==
  LET marks == FlatMarks(tabsBlock)
  IN [valuesArraySource |-> IF tabsBlock[1].t = "Tabs" THEN tabsBlock[1].attrs ELSE <<>>,
      openingTagEndIndex |-> FirstIndex({i \in DOMAIN marks : marks[i].m = ">"}, 1)]

\* extractValuesArrayFromOpeningTag: indexes into the marks of the block, 0
\* for the -1 of indexOf; the values are those of the opening tag when the
\* braces found are its own
extractValuesArrayFromOpeningTag(tabsBlock) ==
  LET marks == FlatMarks(tabsBlock)
      gts == {i \in DOMAIN marks : marks[i].m = ">"}
      valuesIndex == FirstIndex({i \in DOMAIN marks : marks[i].m = "values"}, 1)
      braceStartIndex ==
        IF valuesIndex = 0 THEN 0
        ELSE FirstIndex({i \in DOMAIN marks : marks[i].m = "{"}, valuesIndex)
      braceEndIndex == IF braceStartIndex = 0 THEN 0 ELSE BraceEnd(marks, braceStartIndex, 0)
  IN IF braceStartIndex = 0
     THEN [valuesArraySource |-> <<>>, openingTagEndIndex |-> FirstIndex(gts, 1)]
     ELSE [valuesArraySource |->
             IF marks[braceStartIndex].tok = 1 THEN tabsBlock[1].attrs ELSE <<>>,
           openingTagEndIndex |->
             IF braceEndIndex = 0 THEN 0 ELSE FirstIndex(gts, braceEndIndex)]

\* innerContent (tabs.mjs:15-21): what lies behind the token that holds the end
\* of the opening tag, up to the closing </Tabs>
InnerContent(tabsBlock) ==
  LET marks == FlatMarks(tabsBlock)
      found == extractValuesArrayFromOpeningTag(tabsBlock).openingTagEndIndex
      gt == IF found > 0 THEN found
            ELSE FirstIndex({i \in DOMAIN marks : marks[i].m = ">"}, 1)
  IN SubSeq(tabsBlock, marks[gt].tok + 1, Len(tabsBlock) - 1)

\* variant of TabsBlock: a block without items is rendered as well
TabsBlockAlways(originalTabsBlock) ==
  LET tabs == renderedTabs(InnerContent(originalTabsBlock), 1,
                           extractValuesArrayFromOpeningTag(originalTabsBlock).valuesArraySource)
  IN <<TabsOpen(<<>>)>> \o Flatten(tabs) \o <<TabsClose>>

\* the replacement of one matched block (tabs.mjs:9-46)
TabsBlock(originalTabsBlock) ==
  LET tabs == renderedTabs(InnerContent(originalTabsBlock), 1,
                           extractValuesArrayFromOpeningTag(originalTabsBlock).valuesArraySource)
  IN IF tabs = <<>> THEN originalTabsBlock
     ELSE <<TabsOpen(<<>>)>> \o Flatten(tabs) \o <<TabsClose>>

\* String.replace with the global pattern <Tabs\b[\s\S]*?<\/Tabs>: the
\* leftmost opening that has a closing behind it, up to the first closing
RECURSIVE transformDocusaurusTabsToTarget(_)
transformDocusaurusTabsToTarget(text) ==
  LET i == FirstIndex({k \in DOMAIN text : text[k].t \in {"Tabs", "TabsUnclosed"}}, 1)
      j == IF i = 0 THEN 0 ELSE FirstIndex({k \in DOMAIN text : text[k].t = "/Tabs"}, i + 1)
  IN IF j = 0 THEN text
     ELSE SubSeq(text, 1, i - 1)
            \o TabsBlock(SubSeq(text, i, j))
            \o transformDocusaurusTabsToTarget(SubSeq(text, j + 1, Len(text)))

(* --------------------------- paths and files ---------------------------- *)
OUT == <<"o">>
COPY == <<"c">>
SUB == <<"s">>
X == <<"x">>
Y == <<"y">>

DestRoot == <<OUT>>
CopyRoot == <<COPY>>

NoName == [stem |-> <<>>, ext |-> ""]
NoPath == [dir |-> <<>>, name |-> NoName]

FilePath(dir, name) == [dir |-> dir, name |-> name]

ExtChars(ext) == IF ext = "md" THEN <<"m", "d">> ELSE <<"m", "d", "x">>

\* the file name as one path segment
Segment(name) == name.stem \o <<".">> \o ExtChars(name.ext)

\* rel.replace(/\.(md|mdx)$/i, '.md')
MdName(name) == [stem |-> name.stem, ext |-> "md"]

IndexMd == [stem |-> <<"i", "n", "d", "e", "x">>, ext |-> "md"]

Prefixes(dir) == {SubSeq(dir, 1, k) : k \in 1..Len(dir)}

\* fs.mkdir(dir, { recursive: true })
MkdirP(ds, dir) == ds \cup Prefixes(dir)

WriteFile(fs, path, content) == (path :> content) @@ fs

IsFileAt(fs, p) == \E f \in DOMAIN fs : Append(f.dir, Segment(f.name)) = p

\* path.join(copyRoot, path.relative(destRoot, dir)) for the two sibling roots
UnderCopyRoot(dir) ==
  IF IsPrefix(DestRoot, dir) THEN CopyRoot \o SubSeq(dir, Len(DestRoot) + 1, Len(dir)) ELSE dir

(* ------------------------------ the run --------------------------------- *)
VARIABLES
  variant,      \* "modular", "options" or "monolith": which script runs
  args,         \* the command-line flags
  csvRows,      \* the rows of the move-map CSV
  srcFiles,     \* the source tree: relative path -> document
  imageIndex,   \* the files under --images-src
  pc,           \* the place of the run
  allFiles,     \* the discovered documents, in discovery order
  idx,          \* the document of the per-file loop
  cur,          \* the locals of the loop body
  moveMap,      \* map and dupes of readMoveMapCsv
  dirs,         \* the directories that exist
  files,        \* the files of the output trees: path -> content
  log,          \* the rows of _log.csv after the header
  imagesCsv,    \* the rows of the images manifest after the header
  reports,      \* the report objects: files list of each
  reportFile,   \* migration-report.json: the files lists written, in order
  failed,       \* the failure counter of runPipeline
  status,       \* what the console said of each document: "Converted" / "Failed"
  uploadCache,  \* UPLOAD_CACHE
  uploads,      \* the remote uploads issued so far
  manifests,    \* the _order.yaml files of the destination: directory -> items
  pipelineFailed \* the entry script's catch clause has printed "Pipeline failed:"

inputs == <<variant, args, csvRows, srcFiles, imageIndex>>

\* what only the Directory Finalizer and the entry script's catch clause change
outer == <<manifests, pipelineFailed>>
vars == <<variant, args, csvRows, srcFiles, imageIndex, pc, allFiles, idx, cur, moveMap,
          dirs, files, log, imagesCsv, reports, reportFile, failed, status, uploadCache,
          uploads, manifests, pipelineFailed>>

NoMoveMap == [loaded |-> FALSE, map |-> <<>>, dupes |-> {}]

NoDoc == [fm |-> [sidebar_label |-> <<>>, title |-> <<>>], body |-> <<>>, feats |-> {},
          occ |-> <<>>, html |-> <<>>, tabs |-> <<>>, notes |-> <<>>]

NoCur == [raw |-> NoDoc, title |-> <<>>, occ |-> <<>>, html |-> <<>>, tabs |-> <<>>,
          notes |-> <<>>,
          jsRemoved |-> <<>>, imageUrls |-> <<>>,
          uniqueImages |-> <<>>, mapping |-> <<>>, destAbs |-> NoPath, copyAbs |-> NoPath,
          usedMapping |-> FALSE]

\* the report object runPipeline pushes onto: the one the modular entry script
\* passes in, or the one the options build creates itself (pipeline.mjs:78-88)
PipelineReport == IF variant = "options" THEN "pipeline" ELSE "entry"

Rel == allFiles[idx]

HasCopy == args.copy

\* const outRel / defaultRelative, defaultDestAbs, defaultCopyAbs / mirrorDestAbs
DefaultDestAbs(rel) ==
  FilePath(DestRoot \o (IF variant = "options" /\ args.flat THEN <<>> ELSE rel.dir),
           MdName(rel.name))

DefaultCopyAbs(rel) ==
  IF HasCopy THEN FilePath(CopyRoot \o rel.dir, MdName(rel.name)) ELSE NoPath

MoveKey(rel) == FileKey(MdName(rel.name))

InitRun ==
  /\ pc = "initLogs"
  /\ allFiles = <<>>
  /\ idx = 0
  /\ cur = NoCur
  /\ moveMap = NoMoveMap
  /\ files = <<>>
  /\ log = <<>>
  /\ imagesCsv = <<>>
  /\ reports = [o \in {"entry", "pipeline"} |-> <<>>]
  /\ reportFile = <<>>
  /\ failed = 0
  /\ status = <<>>
  /\ uploadCache = {}
  /\ uploads = 0
  /\ pipelineFailed = FALSE

\* initLogs of the entry script: headers written, the entry script's report
\* object created
InitLogs ==
  /\ pc = "initLogs"
  /\ pc' = "moveMap"
  /\ log' = <<>>
  /\ imagesCsv' = <<>>
  /\ reports' = [reports EXCEPT !["entry"] = <<>>]
  /\ UNCHANGED <<inputs, outer, allFiles, idx, cur, moveMap, dirs, files, reportFile, failed,
                 status, uploadCache, uploads>>

readMoveMapCsv(rows) ==
  IF variant = "modular" THEN ReadMoveMapCsvModular(rows) ELSE ReadMoveMapCsvOptions(rows)

\* An exception outside the try block of the loop.  The modular entry script
\* and convert-to-readme-mdx.mjs await at the top level without a handler: the
\* rejection ends the process.  The options entry script catches what
\* runPipeline throws, prints "Pipeline failed:" and goes on to finalizeReport
\* (moveMap.mjs:274-295).
Escape ==
  /\ pc' = IF variant = "options" THEN "finalizeReport" ELSE "crashed"
  /\ pipelineFailed' = (variant = "options")
  /\ UNCHANGED <<inputs, manifests, allFiles, idx, cur, moveMap, dirs, files, log, imagesCsv,
                 reports, reportFile, failed, status, uploadCache, uploads>>

\* the move-map is read once, by the modular entry script (part_002:45-58) or
\* at the head of the options runPipeline, which first writes the log header
\* again and creates its own report object (pipeline.mjs:70-100)
LoadMoveMap ==
  /\ pc = "moveMap"
  /\ \/ /\ args.upload # "off"
        /\ Escape
     \/ /\ pc' = "discover"
        /\ moveMap' = IF args.moveMap /\ variant # "monolith"
                      THEN [loaded |-> TRUE, map |-> readMoveMapCsv(csvRows).map,
                            dupes |-> readMoveMapCsv(csvRows).dupes]
                      ELSE NoMoveMap
        /\ log' = IF variant = "options" THEN <<>> ELSE log
        /\ reports' = IF variant = "options" THEN [reports EXCEPT !["pipeline"] = <<>>]
                      ELSE reports
        /\ UNCHANGED <<inputs, outer, allFiles, idx, cur, dirs, files, imagesCsv, reportFile,
                       failed, status, uploadCache, uploads>>

Discoverable == {d \in DOMAIN srcFiles : d.name.ext = "md" \/ args.includeMdx}

Orders(S) == {q \in [1..Cardinality(S) -> S] : \A i, j \in DOMAIN q : q[i] = q[j] => i = j}

\* findMarkdownFilesRecursive, then the early return when nothing was found:
\* the modular runPipeline returns to the entry script, which goes on to the
\* finalizer; the options runPipeline returns before its own finalization
Discover ==
  /\ pc = "discover"
  /\ \E q \in Orders(Discoverable) :
       /\ allFiles' = q
       /\ status' = [i \in DOMAIN q |-> "pending"]
       /\ IF q = <<>>
          THEN /\ pc' = CASE variant = "modular" -> "finalize"
                           [] variant = "options" -> "finalizeReport"
                           [] variant = "monolith" -> "done"
               /\ idx' = 0
          ELSE /\ pc' = "read"
               /\ idx' = 1
  /\ UNCHANGED <<inputs, outer, cur, moveMap, dirs, files, log, imagesCsv, reports, reportFile,
                 failed, uploadCache, uploads>>

\* what a stage leaves alone when it only changes the locals
LocalsOnly ==
  UNCHANGED <<inputs, outer, allFiles, idx, moveMap, dirs, files, log, imagesCsv, reports,
              reportFile, failed, status, uploadCache, uploads>>

\* an exception in the try block: control goes to the catch clause
Throw ==
  /\ pc' = "catch"
  /\ UNCHANGED <<inputs, outer, allFiles, idx, cur, moveMap, dirs, files, log, imagesCsv, reports,
                 reportFile, failed, status, uploadCache, uploads>>

Read ==
  /\ pc = "read"
  /\ \/ Throw
     \/ /\ pc' = "prepass"
        /\ cur' = [NoCur EXCEPT !.raw = srcFiles[Rel]]
        /\ LocalsOnly

(* ------------------------ callouts.mjs, on lines ------------------------ *)
\* A line of text: what it holds and the count of two-space pads in front of
\* it.  t is "note", "tip" or "info" for an opening line :::note..., ":::" for
\* a closing line, "" for a line of nothing but whitespace.
Line(t, ind) == [t |-> t, ind |-> ind]

Blank == Line("", 0)

CalloutOpen(kind) == Line("<Callout " \o kind \o ">", 0)
CalloutClose == Line("</Callout>", 0)

\* String.prototype.trim on lines: the blank lines at both ends go, and the
\* pads of the first line; the empty string is one empty line
NonBlank(lines) == {i \in DOMAIN lines : lines[i].t # ""}

trimStart(lines) ==
  IF NonBlank(lines) = {} THEN <<>>
  ELSE <<[lines[Min(NonBlank(lines))] EXCEPT !.ind = 0]>>
         \o SubSeq(lines, Min(NonBlank(lines)) + 1, Len(lines))

trim(lines) ==
  IF NonBlank(lines) = {} THEN <<Blank>>
  ELSE LET last == CHOOSE i \in NonBlank(lines) : \A k \in NonBlank(lines) : k <= i
       IN trimStart(SubSeq(lines, 1, last))

\* indentBlock with the pad of two spaces: a line of length 0 stays as it is
indentBlock(lines) ==
  [i \in DOMAIN lines |-> IF lines[i] = Blank THEN Blank
                          ELSE [lines[i] EXCEPT !.ind = @ + 1]]

\* variant of PadFirst: the two spaces are taken away with the rest
PadFirstTrimmed(lines) == IF lines = <<>> THEN <<Blank>> ELSE lines

\* `  ${...}`: two spaces in front of the text
PadFirst(lines) ==
  IF lines = <<>> THEN <<Line("", 1)>>
  ELSE <<[lines[1] EXCEPT !.ind = @ + 1]>> \o Tail(lines)

toCallout(inner, kind) ==
  LET body == trim(inner)
  IN CASE kind = "note" ->
            <<CalloutOpen("note"), Line("NOTE", 1), Blank>> \o indentBlock(body)
              \o <<CalloutClose>>
       [] kind = "tip" ->
            <<CalloutOpen("tip"), Line("Tip", 1), Blank>> \o indentBlock(body)
              \o <<CalloutClose>>
       [] OTHER ->
            <<CalloutOpen("info")>> \o PadFirst(trimStart(indentBlock(body)))
              \o <<CalloutClose>>

\* text.replace with /^:::kind[^\n]*\n([\s\S]*?)\n:::\s*$/gim: the leftmost
\* opening line at the line start, the first closing line at least two lines
\* below it, and the whitespace lines behind that closing line
RECURSIVE ReplaceBlocks(_, _)
ReplaceBlocks(text, kind) ==
  LET i == FirstIndex({k \in DOMAIN text : text[k] = Line(kind, 0)}, 1)
      j == IF i = 0 THEN 0
           ELSE FirstIndex({k \in DOMAIN text : text[k] = Line(":::", 0)}, i + 2)
      e == IF j = 0 THEN 0
           ELSE CHOOSE k \in j..Len(text) :
                  /\ \A b \in (j + 1)..k : text[b].t = ""
                  /\ k < Len(text) => text[k + 1].t # ""
  IN IF j = 0 THEN text
     ELSE SubSeq(text, 1, i - 1)
            \o toCallout(SubSeq(text, i + 1, j - 1), kind)
            \o ReplaceBlocks(SubSeq(text, e + 1, Len(text)), kind)

convertNoteTipBlocks(text) ==
  ReplaceBlocks(ReplaceBlocks(ReplaceBlocks(text, "info"), "tip"), "note")

\* convertNoteTipBlocks
PrePass ==
  /\ pc = "prepass"
  /\ \/ Throw
     \/ /\ pc' = "frontmatter"
        /\ cur' = [cur EXCEPT !.notes = convertNoteTipBlocks(cur.raw.notes)]
        /\ LocalsOnly

\* matter(), the title, buildReadmeFM and yaml.dump
Frontmatter ==
  /\ pc = "frontmatter"
  /\ \/ Throw
     \/ /\ pc' = "parse"
        /\ cur' = [cur EXCEPT !.title = BuildReadmeFM(cur.raw.fm,
                                                      DeriveTitle(cur.raw.fm, cur.raw.body)).title]
        /\ LocalsOnly

\* jsRemoved after the tree stages: the entries of the nodes in tree order
CollectedJs(html) ==
  Flatten([i \in DOMAIN html |-> jsRemovedOf(FixBangAndHtmlComment(html[i]))])

\* unified()...process(content): parse, the tree stages, the serializer
Parse ==
  /\ pc = "parse"
  /\ \/ Throw
     \/ /\ pc' = "tabs"
        /\ cur' = [cur EXCEPT
                     !.imageUrls = CollectedImageUrls(cur.raw.occ, variant # "options"),
                     !.occ = IF variant # "options" THEN TreeStagesModular(cur.raw.occ)
                             ELSE TreeStagesOptions(cur.raw.occ),
                     !.html = HtmlStages(cur.raw.html),
                     !.jsRemoved = CollectedJs(cur.raw.html)]
        /\ LocalsOnly

\* transformDocusaurusTabsToTarget
Tabs ==
  /\ pc = "tabs"
  /\ \/ Throw
     \/ /\ pc' = IF variant # "options" THEN "images" ELSE "imports"
        /\ cur' = [cur EXCEPT !.tabs = transformDocusaurusTabsToTarget(cur.raw.tabs)]
        /\ LocalsOnly

ManifestRows(results, relFile) ==
  [i \in DOMAIN results |->
     [file |-> relFile, original |-> results[i].orig, local |-> results[i].local,
      url |-> results[i].url]]

UniqueImages(imageUrls) == Dedup(SelectSeq(imageUrls, LAMBDA p : p # <<>>))

\* modular build (pipeline.mjs:653-686): upload and rewrite, or the IMAGES row
ImagesModular ==
  /\ pc = "images"
  /\ variant # "options"
  /\ \/ Throw
     \/ LET unique == UniqueImages(cur.imageUrls)
        IN /\ pc' = "imports"
           /\ IF args.upload = "on" /\ unique # <<>>
              THEN \E oks \in [DOMAIN unique -> BOOLEAN] :
                     LET up == uploadImagesForDocSmart(unique, imageIndex, uploadCache,
                                                       uploads, oks, Rel)
                     IN /\ log' = log \o up.rows
                        /\ uploadCache' = up.cache
                        /\ uploads' = up.uploads
                        /\ imagesCsv' = imagesCsv \o ManifestRows(up.results, Rel)
                        /\ cur' = [cur EXCEPT
                                     !.uniqueImages = unique,
                                     !.mapping = up.results,
                                     !.occ = IF variant = "modular"
                                             THEN rewriteAllImageOccurrences(cur.occ, up.results)
                                             ELSE rewriteAllImageOccurrencesMono(cur.occ,
                                                                                 up.results)]
              ELSE /\ log' = IF unique # <<>> /\ args.upload = "off" /\ variant = "modular"
                             THEN Append(log, LogRow("IMAGES", Rel, unique))
                             ELSE log
                   /\ cur' = [cur EXCEPT !.uniqueImages = unique]
                   /\ UNCHANGED <<uploadCache, uploads, imagesCsv>>
           /\ UNCHANGED <<inputs, outer, allFiles, idx, moveMap, dirs, files, reports, reportFile,
                          failed, status>>

\* the import lines at the top of the body are stripped and logged
ImportStrip ==
  /\ pc = "imports"
  /\ \/ Throw
     \/ /\ pc' = IF variant # "options" THEN "logs" ELSE "images"
        /\ log' = IF "imports" \in cur.raw.feats
                  THEN Append(log, LogRow("REMOVED_IMPORTS", Rel, <<>>))
                  ELSE log
        /\ UNCHANGED <<inputs, outer, allFiles, idx, cur, moveMap, dirs, files, imagesCsv, reports,
                       reportFile, failed, status, uploadCache, uploads>>

\* options build (pipeline.mjs:210-211): every image mention becomes a marker
ImagesOptions ==
  /\ pc = "images"
  /\ variant = "options"
  /\ \/ Throw
     \/ /\ pc' = "logs"
        /\ cur' = [cur EXCEPT !.occ = replaceAllImagesWithPlaceholder(cur.occ)]
        /\ LocalsOnly

\* variant of FeatRows: a row for every collection, empty or not
FeatRowsAlways(feats, file) ==
  <<LogRow("STRIPPED_HTML", file, <<>>), LogRow("REMOVED_JS", file, <<>>),
    LogRow("REMOVED_MDX", file, <<>>)>>

FeatRows(feats, file) ==
  (IF "html" \in feats THEN <<LogRow("STRIPPED_HTML", file, <<>>)>> ELSE <<>>)
    \o (IF "js" \in feats THEN <<LogRow("REMOVED_JS", file, <<>>)>> ELSE <<>>)
    \o (IF "mdx" \in feats THEN <<LogRow("REMOVED_MDX", file, <<>>)>> ELSE <<>>)

ImagesMapRows(unique, relFile) ==
  [i \in DOMAIN unique |->
     [file |-> relFile, original |-> unique[i], local |-> <<>>, url |-> NoUrl]]

\* the rows of the collections that are not empty; the options build adds the
\* IMAGES row and the images-map rows here (pipeline.mjs:213-234)
LogCollected ==
  /\ pc = "logs"
  /\ \/ Throw
     \/ LET unique == UniqueImages(cur.imageUrls)
            withImages == variant = "options" /\ unique # <<>>
            lateRow == variant = "monolith" /\ unique # <<>> /\ args.upload = "off"
        IN /\ pc' = "mapping"
           /\ log' = log \o FeatRows(cur.raw.feats \cup HtmlFeats(cur.raw.html), Rel)
                         \o (IF withImages \/ lateRow THEN <<LogRow("IMAGES", Rel, unique)>>
                             ELSE <<>>)
           /\ imagesCsv' = IF withImages THEN imagesCsv \o ImagesMapRows(unique, Rel)
                           ELSE imagesCsv
           /\ cur' = IF variant = "options" THEN [cur EXCEPT !.uniqueImages = unique] ELSE cur
           /\ UNCHANGED <<inputs, outer, allFiles, idx, moveMap, dirs, files, reports, reportFile,
                          failed, status, uploadCache, uploads>>

Registered(rel) == moveMap.loaded /\ MoveKey(rel) \in DOMAIN moveMap.map

\* modular build (pipeline.mjs:719-744)
MappingModular ==
  LET key == MoveKey(Rel)
      mappedDir == moveMap.map[key]
      destAbs == FilePath(mappedDir, MdName(Rel.name))
  IN IF Registered(Rel) /\ key \in moveMap.dupes
     THEN [row |-> <<LogRow("MOVE_DUPLICATE", Rel, <<>>)>>,
           destAbs |-> DefaultDestAbs(Rel), copyAbs |-> DefaultCopyAbs(Rel), used |-> FALSE]
     ELSE IF Registered(Rel)
     THEN [row |-> <<>>,
           destAbs |-> destAbs,
           copyAbs |-> IF HasCopy THEN FilePath(UnderCopyRoot(mappedDir), MdName(Rel.name))
                       ELSE NoPath,
           used |-> FALSE]
     ELSE [row |-> <<>>, destAbs |-> DefaultDestAbs(Rel), copyAbs |-> DefaultCopyAbs(Rel),
           used |-> FALSE]

\* options build (pipeline.mjs:238-285): the mapping is used only when the
\* directory already exists
MappingOptions ==
  LET key == MoveKey(Rel)
      mappedDir == moveMap.map[key]
      default == [row |-> <<>>, destAbs |-> DefaultDestAbs(Rel),
                  copyAbs |-> DefaultCopyAbs(Rel), used |-> FALSE]
  IN IF Registered(Rel) /\ key \notin moveMap.dupes
     THEN IF mappedDir = NoDir THEN default
          ELSE IF mappedDir \in dirs
          THEN [default EXCEPT !.destAbs = FilePath(mappedDir, MdName(Rel.name)),
                               !.used = TRUE]
          ELSE IF IsFileAt(files, mappedDir)
          THEN [default EXCEPT !.row = <<LogRow("MOVE_DEST_NOT_DIR", Rel, <<>>)>>]
          ELSE [default EXCEPT !.row = <<LogRow("MOVE_DEST_MISSING", Rel, <<>>)>>]
     ELSE IF moveMap.loaded /\ key \in moveMap.dupes
     THEN [default EXCEPT !.row = <<LogRow("MOVE_DUPLICATE", Rel, <<>>)>>]
     ELSE default

Mapping ==
  /\ pc = "mapping"
  /\ \/ Throw
     \/ LET m == IF variant # "options" THEN MappingModular ELSE MappingOptions
        IN /\ pc' = "write"
           /\ log' = log \o m.row
           /\ cur' = [cur EXCEPT !.destAbs = m.destAbs, !.copyAbs = m.copyAbs,
                                 !.usedMapping = m.used]
           /\ UNCHANGED <<inputs, outer, allFiles, idx, moveMap, dirs, files, imagesCsv, reports,
                          reportFile, failed, status, uploadCache, uploads>>

Final == [fm |-> BuildReadmeFM(cur.raw.fm, cur.title), occ |-> cur.occ, html |-> cur.html,
          tabs |-> cur.tabs, notes |-> cur.notes]

\* the final text is written at the destination; the directory is created on
\* the way, except for a mapping the options build has found to exist
WriteDir(ds, dir, used) == IF used THEN ds ELSE MkdirP(ds, dir)

Write ==
  /\ pc = "write"
  /\ \/ Throw
     \/ /\ pc' = "copy"
        /\ dirs' = WriteDir(dirs, cur.destAbs.dir, cur.usedMapping)
        /\ files' = WriteFile(files, cur.destAbs, Final)
        /\ UNCHANGED <<inputs, outer, allFiles, idx, cur, moveMap, log, imagesCsv, reports,
                       reportFile, failed, status, uploadCache, uploads>>

\* the second write, under --copy
WriteCopy ==
  /\ pc = "copy"
  /\ \/ Throw
     \/ /\ pc' = "report"
        /\ dirs' = IF cur.copyAbs # NoPath THEN MkdirP(dirs, cur.copyAbs.dir) ELSE dirs
        /\ files' = IF cur.copyAbs # NoPath THEN WriteFile(files, cur.copyAbs, Final) ELSE files
        /\ UNCHANGED <<inputs, outer, allFiles, idx, cur, moveMap, log, imagesCsv, reports,
                       reportFile, failed, status, uploadCache, uploads>>

ReportEntry ==
  [source |-> Rel, output |-> cur.destAbs, copiedTo |-> cur.copyAbs, title |-> Final.fm.title,
   images |-> cur.uniqueImages, moved |-> cur.destAbs # DefaultDestAbs(Rel)]

\* the end of an iteration: the next document, or the code after the loop
Advance ==
  /\ cur' = NoCur
  /\ IF idx < Len(allFiles)
     THEN pc' = "read" /\ idx' = idx + 1
     ELSE pc' = "finalize" /\ idx' = idx

\* variant of Report: the entry goes to the front of the list
ReportUnshifts ==
  /\ pc = "report"
  /\ log' = IF variant = "modular" /\ cur.destAbs # DefaultDestAbs(Rel)
            THEN Append(log, LogRow("MOVED", Rel, <<>>))
            ELSE log
  /\ reports' = [reports EXCEPT ![PipelineReport] = <<ReportEntry>> \o @]
  /\ status' = [status EXCEPT ![idx] = "Converted"]
  /\ Advance
  /\ UNCHANGED <<inputs, outer, allFiles, moveMap, dirs, files, imagesCsv, reportFile, failed,
                 uploadCache, uploads>>

\* the MOVED row of the modular build, report.files.push, "Converted:"
Report ==
  /\ pc = "report"
  /\ log' = IF variant = "modular" /\ cur.destAbs # DefaultDestAbs(Rel)
            THEN Append(log, LogRow("MOVED", Rel, <<>>))
            ELSE log
  /\ reports' = [reports EXCEPT ![PipelineReport] = Append(@, ReportEntry)]
  /\ status' = [status EXCEPT ![idx] = "Converted"]
  /\ Advance
  /\ UNCHANGED <<inputs, outer, allFiles, moveMap, dirs, files, imagesCsv, reportFile, failed,
                 uploadCache, uploads>>

\* variant of Catch: the error leaves the loop
CatchRethrows ==
  /\ pc = "catch"
  /\ pc' = "done"
  /\ failed' = failed + 1
  /\ status' = [status EXCEPT ![idx] = "Failed"]
  /\ log' = Append(log, LogRow("FAILED", Rel, <<>>))
  /\ UNCHANGED <<inputs, outer, allFiles, idx, cur, moveMap, dirs, files, imagesCsv, reports,
                 reportFile, uploadCache, uploads>>

\* variant of Catch: the FAILED row names no file
CatchRowWithoutFile ==
  /\ pc = "catch"
  /\ failed' = failed + 1
  /\ status' = [status EXCEPT ![idx] = "Failed"]
  /\ log' = Append(log, LogRow("FAILED", NoPath, <<>>))
  /\ Advance
  /\ UNCHANGED <<inputs, outer, allFiles, moveMap, dirs, files, imagesCsv, reports, reportFile,
                 uploadCache, uploads>>

\* variant of Catch: the failed document gets a report entry as well
CatchPushesEntry ==
  /\ pc = "catch"
  /\ failed' = failed + 1
  /\ status' = [status EXCEPT ![idx] = "Failed"]
  /\ log' = Append(log, LogRow("FAILED", Rel, <<>>))
  /\ reports' = [reports EXCEPT ![PipelineReport] = Append(@, ReportEntry)]
  /\ Advance
  /\ UNCHANGED <<inputs, outer, allFiles, moveMap, dirs, files, imagesCsv, reportFile,
                 uploadCache, uploads>>

\* variant of Catch: the FAILED row is put in front of the rows of the log
CatchPrependsRow ==
  /\ pc = "catch"
  /\ failed' = failed + 1
  /\ status' = [status EXCEPT ![idx] = "Failed"]
  /\ log' = <<LogRow("FAILED", Rel, <<>>)>> \o log
  /\ Advance
  /\ UNCHANGED <<inputs, outer, allFiles, moveMap, dirs, files, imagesCsv, reports, reportFile,
                 uploadCache, uploads>>

\* catch (err): failed++, "Failed:", the FAILED row, continue
Catch ==
  /\ pc = "catch"
  /\ failed' = failed + 1
  /\ status' = [status EXCEPT ![idx] = "Failed"]
  /\ log' = Append(log, LogRow("FAILED", Rel, <<>>))
  /\ Advance
  /\ UNCHANGED <<inputs, outer, allFiles, moveMap, dirs, files, imagesCsv, reports, reportFile,
                 uploadCache, uploads>>

DestDirs(ds) == {d \in ds : IsPrefix(DestRoot, d)}

NodeModules == <<"n", "o", "d", "e", "_", "m", "o", "d", "u", "l", "e", "s">>

\* the directories the walks of the finalizer do not enter
Ignored(name) == name[1] = "." \/ name = NodeModules

\* the directories the walks reach from the root: no ignored name below it
Visited(ds) ==
  {d \in DestDirs(ds) : \A k \in (Len(DestRoot) + 1)..Len(d) : ~Ignored(d[k])}

IndexContent(dir) ==
  [fm |-> BuildReadmeFM(NoDoc.fm, dir[Len(dir)]), occ |-> <<>>, html |-> <<>>, tabs |-> <<>>, notes |-> <<>>]

\* variant of ensureIndexesForCreatedDirs: an index.md is written in every
\* directory of the walk
ensureIndexesOverwriting(fs, ds) ==
  [p \in DOMAIN fs \cup {FilePath(d, IndexMd) : d \in Visited(ds)} |->
     IF p.name = IndexMd /\ p.dir \in Visited(ds) THEN IndexContent(p.dir) ELSE fs[p]]

\* ensureIndexesForCreatedDirs: an index.md for every directory that lacks one
ensureIndexesForCreatedDirs(fs, ds) ==
  LET lacking == {d \in Visited(ds) : FilePath(d, IndexMd) \notin DOMAIN fs}
  IN [p \in DOMAIN fs \cup {FilePath(d, IndexMd) : d \in lacking} |->
        IF p \in DOMAIN fs THEN fs[p] ELSE IndexContent(p.dir)]

\* the order of localeCompare on the characters of the slugs
Alphabet == <<"-", "a", "b", "c", "d", "e", "f", "g", "h", "i", "j", "k", "l", "m", "n", "o",
              "p", "q", "r", "s", "t", "u", "v", "w", "x", "y", "z">>

CharRank(c) == CHOOSE i \in DOMAIN Alphabet : Alphabet[i] = c

RECURSIVE Before(_, _)
Before(a, b) ==
  IF a = <<>> THEN b # <<>>
  ELSE IF b = <<>> THEN FALSE
  ELSE IF Head(a) = Head(b) THEN Before(Tail(a), Tail(b))
  ELSE CharRank(Head(a)) < CharRank(Head(b))

\* baseName.toLowerCase().replace(/\s+/g, '-')
SlugChar(c) == IF c = " " THEN "-" ELSE LowerChar(c)

Slug(baseName) == [i \in DOMAIN baseName |-> SlugChar(baseName[i])]

\* the filter of the manifest pass on one entry name
Listed(name) == name[1] # "." /\ name[1] # "_"

RECURSIVE SetToSeq(_)
SetToSeq(S) ==
  IF S = {} THEN <<>> ELSE LET x == CHOOSE y \in S : TRUE IN <<x>> \o SetToSeq(S \ {x})

\* the items written into the manifest of one directory: its directories and
\* its .md files other than index.md, as slugs, sorted
OrderItems(dir, fs, ds) ==
  LET subdirs == {d \in ds : Len(d) = Len(dir) + 1 /\ IsPrefix(dir, d) /\ Listed(d[Len(d)])}
      mdFiles == {f \in DOMAIN fs : f.dir = dir /\ Listed(f.name.stem) /\ f.name.ext = "md"
                                      /\ ToLowerCase(f.name.stem) # IndexMd.stem}
  IN SortSeq([i \in DOMAIN SetToSeq(subdirs) |-> Slug(SetToSeq(subdirs)[i][Len(dir) + 1])]
               \o [i \in DOMAIN SetToSeq(mdFiles) |-> Slug(SetToSeq(mdFiles)[i].name.stem)],
             Before)

\* variant of updateAllOrderYamlIfPresent: a manifest for every directory of the walk
updateAllOrderYaml(ms, fs, ds) ==
  [d \in DOMAIN ms \cup Visited(ds) |->
     IF d \in Visited(ds) THEN OrderItems(d, fs, ds) ELSE ms[d]]

\* updateAllOrderYamlIfPresent: the manifest of every directory of the walk
\* that has one is written anew
updateAllOrderYamlIfPresent(ms, fs, ds) ==
  [d \in DOMAIN ms |-> IF d \in Visited(ds) THEN OrderItems(d, fs, ds) ELSE ms[d]]

\* the Directory Finalizer; the options runPipeline then writes its own report
Finalize ==
  /\ pc = "finalize"
  /\ \/ Escape
     \/ /\ pc' = IF variant # "options" THEN "finalizeReport" ELSE "pipelineReport"
        /\ files' = ensureIndexesForCreatedDirs(files, dirs)
        /\ manifests' = updateAllOrderYamlIfPresent(manifests, files', dirs)
        /\ UNCHANGED <<inputs, pipelineFailed, allFiles, idx, cur, moveMap, dirs, log,
                       imagesCsv, reports, reportFile, failed, status, uploadCache, uploads>>

\* options runPipeline (pipeline.mjs:339-341): fs.writeFile(reportPath, report)
PipelineWritesReport ==
  /\ pc = "pipelineReport"
  /\ pc' = "finalizeReport"
  /\ reportFile' = Append(reportFile, reports["pipeline"])
  /\ UNCHANGED <<inputs, outer, allFiles, idx, cur, moveMap, dirs, files, log, imagesCsv, reports,
                 failed, status, uploadCache, uploads>>

\* finalizeReport of the entry script, on the entry script's report object
FinalizeReport ==
  /\ pc = "finalizeReport"
  /\ pc' = "done"
  /\ reportFile' = Append(reportFile, reports["entry"])
  /\ UNCHANGED <<inputs, outer, allFiles, idx, cur, moveMap, dirs, files, log, imagesCsv, reports,
                 failed, status, uploadCache, uploads>>

Next ==
  \/ InitLogs
  \/ LoadMoveMap
  \/ Discover
  \/ Read
  \/ PrePass
  \/ Frontmatter
  \/ Parse
  \/ Tabs
  \/ ImagesModular
  \/ ImagesOptions
  \/ ImportStrip
  \/ LogCollected
  \/ Mapping
  \/ Write
  \/ WriteCopy
  \/ Report
  \/ Catch
  \/ Finalize
  \/ PipelineWritesReport
  \/ FinalizeReport

(* --------------------------- the runs explored -------------------------- *)
NameA == [stem |-> <<"a">>, ext |-> "md"]
NameUpperA == [stem |-> <<"A">>, ext |-> "md"]
NameB == [stem |-> <<"b">>, ext |-> "mdx"]

PlainDoc == [fm |-> [sidebar_label |-> <<>>, title |-> <<"t">>], body |-> <<>>,
             feats |-> {}, occ |-> <<>>, html |-> <<>>, tabs |-> <<>>, notes |-> <<>>]

\* the source trees with at most MaxDocs documents, taken from pool
Trees(pool, docs) ==
  UNION {[D -> docs] : D \in {S \in SUBSET pool : Cardinality(S) <= MaxDocs}}

Args(copy, flat, upload, includeMdx, hasMap) ==
  [copy |-> copy, flat |-> flat, upload |-> upload, includeMdx |-> includeMdx,
   moveMap |-> hasMap]

\* destRoot, and copyRoot under --copy, exist when the loop starts; other
\* directories of the destination may be there from an earlier run
StartDirs(pre) == {DestRoot} \cup (IF args.copy THEN {CopyRoot} ELSE {}) \cup pre

MainPaths == {FilePath(<<>>, NameUpperA), FilePath(<<SUB>>, NameA), FilePath(<<>>, NameB)}

MainRows == {[file |-> NameA, dest |-> <<OUT, X>>], [file |-> NameA, dest |-> <<OUT, Y>>],
             [file |-> NameB, dest |-> NoDir]}

Init ==
  /\ variant \in {"modular", "options"}
  /\ \E copy \in BOOLEAN : args = Args(copy, FALSE, "off", TRUE, TRUE)
  /\ csvRows \in SeqsUpTo(MainRows, MaxRows)
  /\ srcFiles \in Trees(MainPaths, {PlainDoc})
  /\ imageIndex = <<>>
  /\ \E pre \in SUBSET {<<OUT, X>>} : dirs = StartDirs(pre)
  /\ manifests = <<>>
  /\ InitRun

Spec == Init /\ [][Next]_vars

\* ---- documents that differ in frontmatter and in the lines of the body ----
TitleLines == {<<"#", " ", "x">>, <<"#">>, <<"y">>, <<"#", "#", " ", "z">>, <<>>}

TitleDocs ==
  {[fm |-> [sidebar_label |-> l, title |-> t], body |-> b, feats |-> {}, occ |-> <<>>,
    html |-> <<>>, tabs |-> <<>>, notes |-> <<>>] :
     l \in {<<>>, <<"L">>}, t \in {<<>>, <<"T">>}, b \in SeqsUpTo(TitleLines, MaxLines)}

InitTitle ==
  /\ variant \in {"modular", "options"}
  /\ args = Args(FALSE, FALSE, "off", TRUE, FALSE)
  /\ csvRows = <<>>
  /\ srcFiles \in Trees({FilePath(<<>>, NameA)}, TitleDocs)
  /\ imageIndex = <<>>
  /\ dirs = StartDirs({})
  /\ manifests = <<>>
  /\ InitRun

SpecTitle == InitTitle /\ [][Next]_vars

\* ---- documents that differ in their image occurrences ----
PathA == <<"a">>
PathSlashA == <<"/", "a">>
PathM == <<"m">>
PathAB == <<"a", "b">>

ImageOccs ==
  {Occ(f, q) : f \in {"md", "img", "useBase", "zoom"}, q \in {PathA, PathSlashA, PathM}}
    \cup {Occ("zoomUseBase", PathA), Occ("zoom", <<>>),
          Occ("missing", PathA), Occ("missing", PathAB)}

ImageDocs ==
  {[fm |-> PlainDoc.fm, body |-> <<>>, feats |-> {}, occ |-> o, html |-> <<>>,
    tabs |-> <<>>, notes |-> <<>>] :
     o \in SeqsUpTo(ImageOccs, MaxOcc)}

InitImages ==
  /\ \/ variant \in {"modular", "monolith"} /\ \E u \in {"on", "off", "noIndex"} :
                                                args = Args(FALSE, FALSE, u, TRUE, FALSE)
     \/ variant = "options" /\ args = Args(FALSE, FALSE, "off", TRUE, FALSE)
  /\ csvRows = <<>>
  /\ srcFiles \in Trees({FilePath(<<>>, NameA)}, ImageDocs)
  /\ imageIndex = <<PathA>>
  /\ dirs = StartDirs({})
  /\ manifests = <<>>
  /\ InitRun

SpecImages == InitImages /\ [][Next]_vars

\* ---- two documents that refer to the same image files ----
CacheOccs == {Occ("img", PathA), Occ("md", PathSlashA), Occ("img", PathM)}

CacheDocs ==
  {[fm |-> PlainDoc.fm, body |-> <<>>, feats |-> {}, occ |-> o, html |-> <<>>,
    tabs |-> <<>>, notes |-> <<>>] :
     o \in SeqsUpTo(CacheOccs, MaxOcc)}

InitCache ==
  /\ \/ /\ variant \in {"modular", "monolith"}
        /\ args = Args(FALSE, FALSE, "on", TRUE, FALSE)
        /\ srcFiles \in Trees({FilePath(<<>>, NameA), FilePath(<<>>, NameB)}, CacheDocs)
     \/ /\ variant = "options"
        /\ args = Args(FALSE, FALSE, "off", TRUE, FALSE)
        /\ srcFiles \in Trees({FilePath(<<>>, NameA)}, CacheDocs)
  /\ csvRows = <<>>
  /\ imageIndex = <<PathA>>
  /\ dirs = StartDirs({})
  /\ manifests = <<>>
  /\ InitRun

SpecCache == InitCache /\ [][Next]_vars

\* ---- documents that hold one raw markup node ----
HandlerKinds == <<"dq", "sq", "brace">>

TagNames == <<<<"p">>, <<"T", "D">>, <<"T", "a", "b">>>>

\* n handlers on the tag of the k-th name: the value kinds in turn, the k-th first
Handlers(k, n) == [i \in 1..n |-> HandlerKinds[((k + i - 2) % Len(HandlerKinds)) + 1]]

SrcU == <<"u">>

HtmlItems ==
  {ScriptBlock, Script(SrcU, <<>>), Script(SrcU, <<"x">>), Script(<<>>, <<>>)}
    \cup {Element(TagNames[k], Handlers(k, n)) : k \in DOMAIN TagNames, n \in 0..MaxHandlers}

HtmlNodes ==
  {HtmlNode(w, its) : w \in {"none", "comment"}, its \in SeqsUpTo(HtmlItems, MaxItems)}
    \cup {HtmlNode("decl", <<>>)}

HtmlDocs ==
  {[fm |-> PlainDoc.fm, body |-> <<>>, feats |-> {}, occ |-> <<>>, html |-> <<n>>,
    tabs |-> <<>>, notes |-> <<>>] :
     n \in HtmlNodes}

InitHtml ==
  /\ variant \in {"modular", "options", "monolith"}
  /\ args = Args(FALSE, FALSE, "off", TRUE, FALSE)
  /\ srcFiles \in Trees({FilePath(<<>>, NameA)}, HtmlDocs)
  /\ csvRows = <<>>
  /\ imageIndex = <<>>
  /\ dirs = StartDirs({})
  /\ manifests = <<>>
  /\ InitRun

SpecHtml == InitHtml /\ [][Next]_vars

\* ---- documents that hold tabbed blocks ----
ValueV == <<"v">>

Labels == SeqsUpTo({"x", "&", Markup}, MaxLabel)

ValuesArrays == {<<>>} \cup {<<[value |-> ValueV, label |-> l]>> : l \in Labels}

ValueAttr == Attr("value", "dq", ValueV)

LabelAttrs == {Attr("label", q, l) : q \in {"dq", "brace"}, l \in Labels \ {<<>>}}

ItemAttrs ==
  {<<>>, <<ValueAttr>>}
    \cup {<<a>> : a \in LabelAttrs}
    \cup {<<ValueAttr, a>> : a \in LabelAttrs}
    \cup {<<a, ValueAttr>> : a \in LabelAttrs}

\* one block with one item, in every way of naming it
OneItemTexts ==
  {<<TabsOpen(vs), TabItemOpen(as), TabItemClose, TabsClose>> :
     vs \in ValuesArrays, as \in ItemAttrs}

\* the openings and closings in every order
TokenTexts ==
  SeqsUpTo({TabsOpen(<<>>), TabsClose, TabItemOpen(<<ValueAttr>>), TabItemClose}, MaxTokens)

TabsDocs ==
  {[fm |-> PlainDoc.fm, body |-> <<>>, feats |-> {}, occ |-> <<>>, html |-> <<>>,
    tabs |-> t, notes |-> <<>>] : t \in OneItemTexts \cup TokenTexts}

InitTabs ==
  /\ variant \in {"modular", "options", "monolith"}
  /\ args = Args(FALSE, FALSE, "off", TRUE, FALSE)
  /\ srcFiles \in Trees({FilePath(<<>>, NameA)}, TabsDocs)
  /\ csvRows = <<>>
  /\ imageIndex = <<>>
  /\ dirs = StartDirs({})
  /\ manifests = <<>>
  /\ InitRun

SpecTabs == InitTabs /\ [][Next]_vars

\* ---- destinations that hold directories and manifests of an earlier run ----
Hidden == <<".", "h">>

OlderDirs == {<<OUT, X>>, <<OUT, SUB>>, <<OUT, Hidden>>}

StaleItems == <<<<"z">>>>

InitFinalizer ==
  /\ variant \in {"modular", "options", "monolith"}
  /\ args = Args(FALSE, FALSE, "off", TRUE, FALSE)
  /\ srcFiles \in Trees({FilePath(<<>>, IndexMd), FilePath(<<SUB>>, NameUpperA)}, {PlainDoc})
  /\ csvRows = <<>>
  /\ imageIndex = <<>>
  /\ \E pre \in SUBSET OlderDirs :
       /\ dirs = StartDirs(pre)
       /\ \E held \in SUBSET ({DestRoot} \cup pre) : manifests = [d \in held |-> StaleItems]
  /\ InitRun

SpecFinalizer == InitFinalizer /\ [][Next]_vars

\* ---- one tabbed block: openings with a values literal, bodies with braces ----
MaxBody == 3

LabelX == [value |-> ValueV, label |-> <<"x">>]
LabelMarkupX == [value |-> ValueV, label |-> <<Markup, "x">>]

Openings ==
  {TabsOpen(<<>>), TabsOpen(<<LabelX>>), TabsOpen(<<LabelMarkupX>>),
   TabsUnclosed(<<LabelX>>), TabsUnclosed(<<LabelMarkupX>>)}

Bodies == SeqsUpTo({Piece("values"), Piece("{"), Piece("}")}, MaxBody)

BlockTexts ==
  {<<o, TabItemOpen(<<ValueAttr>>)>> \o b \o <<TabItemClose>> \o more \o <<TabsClose>> :
     o \in Openings, b \in Bodies, more \in {<<>>, <<TabItemOpen(<<>>), TabItemClose>>}}

BlockDocs ==
  {[fm |-> PlainDoc.fm, body |-> <<>>, feats |-> {}, occ |-> <<>>, html |-> <<>>,
    tabs |-> t, notes |-> <<>>] : t \in BlockTexts}

InitBlocks ==
  /\ variant \in {"modular", "options", "monolith"}
  /\ args = Args(FALSE, FALSE, "off", TRUE, FALSE)
  /\ srcFiles \in Trees({FilePath(<<>>, NameA)}, BlockDocs)
  /\ csvRows = <<>>
  /\ imageIndex = <<>>
  /\ dirs = StartDirs({})
  /\ manifests = <<>>
  /\ InitRun

SpecBlocks == InitBlocks /\ [][Next]_vars

\* ---- documents whose names differ in the directory or the extension only ----
NameAMdx == [stem |-> <<"a">>, ext |-> "mdx"]

SameNamePaths == {FilePath(<<>>, NameA), FilePath(<<SUB>>, NameA), FilePath(<<>>, NameAMdx)}

OtherDoc == [PlainDoc EXCEPT !.fm.title = <<"u">>]

InitPaths ==
  /\ variant \in {"modular", "options", "monolith"}
  /\ \E copy, flat \in BOOLEAN :
       /\ flat => variant = "options"
       /\ args = Args(copy, flat, "off", TRUE, TRUE)
  /\ csvRows \in {<<>>, <<[file |-> NameA, dest |-> <<OUT, X>>]>>}
  /\ srcFiles \in Trees(SameNamePaths, {PlainDoc, OtherDoc})
  /\ imageIndex = <<>>
  /\ dirs = StartDirs({<<OUT, X>>})
  /\ manifests = <<>>
  /\ InitRun

SpecPaths == InitPaths /\ [][Next]_vars

\* ---- texts of note, tip and info blocks ----
MaxNoteLines == 4

NoteLines ==
  {Line("note", 0), Line("tip", 0), Line("info", 0), Line(":::", 0), Line("x", 0), Blank}

\* longer texts: blocks one behind the other, one inside the other, and a
\* block that is not closed
LongTexts ==
  {<<Line("note", 0), Line("x", 0), Line(":::", 0), Line("tip", 0), Line("x", 0), Line(":::", 0)>>,
   <<Line("note", 0), Line("info", 0), Line("x", 0), Line(":::", 0), Line(":::", 0)>>,
   <<Line("info", 0), Line("info", 0), Line("x", 0), Line(":::", 0), Line(":::", 0)>>,
   <<Line("info", 0), Line("tip", 0), Line("note", 0), Line("x", 0), Line(":::", 0),
     Line(":::", 0), Line(":::", 0)>>,
   <<Line("tip", 0), Line("x", 0), Line(":::", 0), Blank, Line("note", 0), Line("info", 0),
     Line(":::", 0)>>}

NoteTexts == SeqsUpTo(NoteLines, MaxNoteLines) \cup LongTexts

NoteDocs ==
  {[fm |-> PlainDoc.fm, body |-> <<>>, feats |-> {}, occ |-> <<>>, html |-> <<>>,
    tabs |-> <<>>, notes |-> t] : t \in NoteTexts}

InitNotes ==
  /\ variant \in {"modular", "options", "monolith"}
  /\ args = Args(FALSE, FALSE, "off", TRUE, FALSE)
  /\ srcFiles \in Trees({FilePath(<<>>, NameA)}, NoteDocs)
  /\ csvRows = <<>>
  /\ imageIndex = <<>>
  /\ dirs = StartDirs({})
  /\ manifests = <<>>
  /\ InitRun

SpecNotes == InitNotes /\ [][Next]_vars

\* ---- image trees with files of the same name, and references into them ----
MaxFiles == 2

FileA == <<"a">>
FileYA == <<"y", "/", "a">>
FileZA == <<"z", "/", "a">>
FileWXYA == <<"w", "x", "/", "y", "/", "a">>

RefXYA == <<"x", "/", "y", "/", "a">>
RefQA == <<"/", "q", "/", "a">>
RefB == <<"q", "/", "b">>

IndexFiles == {FileA, FileYA, FileZA, FileWXYA}

ImageIndexes == {ix \in SeqsUpTo(IndexFiles, MaxFiles) : \A i, j \in DOMAIN ix : ix[i] = ix[j] => i = j}

References == {FileYA, <<"/">> \o FileYA, RefXYA, RefQA, RefB}

ResolveDocs ==
  {[fm |-> PlainDoc.fm, body |-> <<>>, feats |-> {}, occ |-> <<Occ("img", q)>>, html |-> <<>>,
    tabs |-> <<>>, notes |-> <<>>] : q \in References}

InitResolve ==
  /\ \/ variant \in {"modular", "monolith"} /\ args = Args(FALSE, FALSE, "on", TRUE, FALSE)
     \/ variant = "options" /\ args = Args(FALSE, FALSE, "off", TRUE, FALSE)
  /\ csvRows = <<>>
  /\ srcFiles \in Trees({FilePath(<<>>, NameA)}, ResolveDocs)
  /\ imageIndex \in ImageIndexes
  /\ dirs = StartDirs({})
  /\ manifests = <<>>
  /\ InitRun

SpecResolve == InitResolve /\ [][Next]_vars

\* ---- documents with something for every collection of the audit log ----
LogFeats == {{}, {"imports", "mdx"}}

LogOccs == {<<>>, <<Occ("img", PathA), Occ("md", PathSlashA)>>}

LogHtml == {<<>>, <<HtmlNode("none", <<ScriptBlock, Element(<<"p">>, <<>>)>>)>>}

LogDocs ==
  {[fm |-> PlainDoc.fm, body |-> <<>>, feats |-> f, occ |-> o, html |-> h, tabs |-> <<>>, notes |-> <<>>] :
     f \in LogFeats, o \in LogOccs, h \in LogHtml}

InitLog ==
  /\ \/ variant \in {"modular", "monolith"} /\ \E u \in {"on", "off"} :
                                                args = Args(TRUE, FALSE, u, TRUE, FALSE)
     \/ variant = "options" /\ args = Args(TRUE, FALSE, "off", TRUE, FALSE)
  /\ csvRows = <<>>
  /\ srcFiles \in Trees({FilePath(<<>>, NameA), FilePath(<<>>, NameB)}, LogDocs)
  /\ imageIndex = <<PathA>>
  /\ dirs = StartDirs({})
  /\ manifests = <<>>
  /\ InitRun

SpecLog == InitLog /\ [][Next]_vars

(* ------------------------------ properties ------------------------------ *)
AfterLoop == {"finalize", "pipelineReport", "finalizeReport", "done"}

Count(seq, P(_)) == Len(SelectSeq(seq, P))

Indexes(seq) == [i \in DOMAIN seq |-> i]

\* the documents of a given status, in discovery order
WithStatus(st) ==
  LET ix == SelectSeq(Indexes(allFiles), LAMBDA i : status[i] = st)
  IN [k \in DOMAIN ix |-> allFiles[ix[k]]]

Sources(rep) == [k \in DOMAIN rep |-> rep[k].source]

RowsOf(type, file) == Count(log, LAMBDA r : r.type = type /\ r.file = file)

\* C1: a document whose processing raises an exception ends Failed and the
\* loop goes on to the next document; when the loop is left, every discovered
\* document has been converted or has failed.
C1_FailureIsolated ==
  [][/\ pc = "catch" =>
          /\ status'[idx] = "Failed"
          /\ IF idx < Len(allFiles) THEN pc' = "read" /\ idx' = idx + 1 ELSE pc' = "finalize"
     /\ pc' \in AfterLoop => \A i \in DOMAIN status' : status'[i] \in {"Converted", "Failed"}
    ]_vars

C1_Witness ==
  /\ pc = "done"
  /\ \E i, j \in DOMAIN status : i < j /\ status[i] = "Failed" /\ status[j] = "Converted"

\* C2: the failure counter is the number of Failed documents, the log holds
\* exactly one FAILED row for each Failed document, under its relative path,
\* and no FAILED row for any other document.
C2_FailureCounted ==
  /\ failed = Len(WithStatus("Failed"))
  /\ Count(log, LAMBDA r : r.type = "FAILED") = failed
  /\ \A i \in DOMAIN allFiles :
       RowsOf("FAILED", allFiles[i]) = IF status[i] = "Failed" THEN 1 ELSE 0

C2_Witness ==
  /\ pc = "done"
  /\ failed = 1
  /\ Len(allFiles) = 2
  /\ status[2] = "Failed"

\* C3: when runPipeline ends, the sources of the report's entries are the
\* converted documents in discovery order, and entries plus failures make up
\* the discovered documents.
C3_ReportListsConverted ==
  pc \in AfterLoop =>
    /\ Sources(reports[PipelineReport]) = WithStatus("Converted")
    /\ Len(reports[PipelineReport]) + failed = Len(allFiles)

C3_Witness ==
  /\ pc = "done"
  /\ Len(reports[PipelineReport]) = 1
  /\ failed = 1

\* C4 as stated: the report holds an entry for every processed document,
\* converted or failed.
C4_EntryForEveryDocument ==
  pc \in AfterLoop => Len(reports[PipelineReport]) = Len(allFiles)

\* C4: at every moment the report holds one entry for each converted
\* document and none for a failed or unfinished one.
C4_EntryOnlyWhenConverted ==
  \A i \in DOMAIN allFiles :
    Count(reports[PipelineReport], LAMBDA e : e.source = allFiles[i])
      = IF status[i] = "Converted" THEN 1 ELSE 0

C4_Witness ==
  /\ pc = "done"
  /\ \E i \in DOMAIN status :
       /\ status[i] = "Failed"
       /\ \A k \in DOMAIN reports[PipelineReport] :
            reports[PipelineReport][k].source # allFiles[i]
  /\ reports[PipelineReport] # <<>>

\* C5 as stated: the report is written exactly once, after the last document
\* and the finalizer, and the file lists every entry accumulated.
C5_ReportWrittenOnce ==
  /\ pc \notin {"done"} => Len(reportFile) <= 1
  /\ pc = "done" =>
       /\ Len(reportFile) = 1
       /\ reportFile[Len(reportFile)] = reports[PipelineReport]

C5_Witness ==
  /\ pc = "done"
  /\ variant = "options"
  /\ Len(reportFile) = 2
  /\ reportFile[1] = reports["pipeline"]
  /\ reportFile[2] = <<>>
  /\ reports["pipeline"] # <<>>

\* the registered destination of the current document is not a directory yet
MappedDirMissing ==
  /\ Registered(Rel)
  /\ MoveKey(Rel) \notin moveMap.dupes
  /\ moveMap.map[MoveKey(Rel)] # NoDir
  /\ moveMap.map[MoveKey(Rel)] \notin dirs

\* C6 as stated: when the registered destination directory is missing at
\* write time, the write does not create it, a destination-missing row is
\* logged and the document is written at its default location.
C6_MissingDestinationNotCreated ==
  [][(pc = "write" /\ pc' = "copy" /\ MappedDirMissing) =>
       /\ moveMap.map[MoveKey(Rel)] \notin dirs'
       /\ cur.destAbs = DefaultDestAbs(Rel)
       /\ RowsOf("MOVE_DEST_MISSING", Rel) = 1
    ]_vars

C6_Witness ==
  /\ pc = "copy"
  /\ variant = "modular"
  /\ Registered(Rel)
  /\ cur.destAbs = FilePath(<<OUT, X>>, NameA)
  /\ cur.destAbs \in DOMAIN files
  /\ <<OUT, X>> \in dirs
  /\ RowsOf("MOVE_DEST_MISSING", Rel) = 0

KeptRows == IF variant = "modular" THEN KeptRowsModular(csvRows) ELSE csvRows

\* C7 as stated: the flagged file names are those that several rows map to
\* different destinations.
C7_FlaggedWhenDestinationsDiffer ==
  moveMap.loaded => moveMap.dupes = DupesDifferentDest(KeptRows)

\* C7: a file name is flagged exactly when more than one row of the move-map
\* names it, whatever the destinations; a document whose lower-cased output
\* file name is flagged is written at its default location with exactly one
\* duplicate-mapping row, and no other document gets such a row.
C7_FlaggedWhenSeveralRows ==
  /\ moveMap.loaded =>
       moveMap.dupes = {FileKey(KeptRows[i].file) : i \in
                          {i \in DOMAIN KeptRows : \E j \in DOMAIN KeptRows :
                             j # i /\ FileKey(KeptRows[j].file) = FileKey(KeptRows[i].file)}}
  /\ pc \in {"write", "copy", "report"} =>
       IF moveMap.loaded /\ FileKey(MdName(Rel.name)) \in moveMap.dupes
       THEN cur.destAbs = DefaultDestAbs(Rel) /\ RowsOf("MOVE_DUPLICATE", Rel) = 1
       ELSE RowsOf("MOVE_DUPLICATE", Rel) = 0
  /\ pc = "report" => cur.destAbs \in DOMAIN files

C7_Witness ==
  /\ pc = "report"
  /\ Rel.name = NameUpperA
  /\ Len(csvRows) = 2
  /\ csvRows[1] = csvRows[2]
  /\ RowsOf("MOVE_DUPLICATE", Rel) = 1
  /\ cur.destAbs = FilePath(DestRoot, NameUpperA)
  /\ cur.destAbs \in DOMAIN files

\* the text of the first level-1 heading of the body: the first line that is
\* a "#" followed by a blank or by the end of the line
IsH1(line) ==
  LET t == LStrip(line)
  IN t # <<>> /\ Head(t) = "#" /\ (Tail(t) = <<>> \/ Head(Tail(t)) = " ")

FirstH1Text(body) ==
  LET hs == {i \in DOMAIN body : IsH1(body[i])}
  IN IF hs = {} THEN <<>> ELSE Trim(Tail(LStrip(body[Min(hs)])))

TitleByPrecedence(doc) ==
  OrElse(doc.fm.sidebar_label, OrElse(doc.fm.title, OrElse(FirstH1Text(doc.body), Untitled)))

\* C8 as stated: the derived title is the first non-empty of sidebar_label,
\* title, the text of the first level-1 heading and "Untitled", and it is the
\* title of the written frontmatter and of the report entry.
C8_TitleByPrecedence ==
  /\ pc \in {"copy", "report"} => files[cur.destAbs].fm.title = TitleByPrecedence(cur.raw)
  /\ \A k \in DOMAIN reports[PipelineReport] :
       reports[PipelineReport][k].title
         = TitleByPrecedence(srcFiles[reports[PipelineReport][k].source])

C8_Witness ==
  /\ pc = "done"
  /\ Len(reports[PipelineReport]) = 1
  /\ srcFiles[reports[PipelineReport][1].source].fm = NoDoc.fm
  /\ srcFiles[reports[PipelineReport][1].source].body = <<<<"#">>, <<"y">>>>
  /\ reports[PipelineReport][1].title = <<"y">>
  /\ files[reports[PipelineReport][1].output].fm.title = <<"y">>

\* the upload stage of the modular build has run for the current document
Uploaded ==
  /\ variant # "options"
  /\ args.upload = "on"
  /\ pc \in {"imports", "logs", "mapping", "write", "copy", "report"}

Refs == {q \in SeqRange(cur.imageUrls) : q # <<>>}

Hosted(q) == \E k \in DOMAIN cur.mapping : cur.mapping[k].orig = q

ImageRows(type, q) == Count(log, LAMBDA r : r.type = type /\ r.file = Rel /\ r.imgs = <<q>>)

\* C9: after the upload stage every distinct non-empty reference of the
\* document is accounted for in exactly one way: unresolved, with one
\* LOCAL_IMAGE_NOT_FOUND row and no mapping entry; resolved but not uploaded,
\* with one REMOTE_IMAGE_UPLOAD_FAILED row and no mapping entry; or resolved
\* and uploaded, with one mapping entry holding the local file and its hosted
\* URL and no row.  The mapping holds nothing else, and the document goes on.
C9_MappingIsResolvedAndUploaded ==
  Uploaded =>
    /\ \A q \in Refs :
         LET local == resolveLocalImageSmart(q, imageIndex)
         IN IF local = <<>>
            THEN /\ ~Hosted(q)
                 /\ ImageRows("LOCAL_IMAGE_NOT_FOUND", q) = 1
                 /\ ImageRows("REMOTE_IMAGE_UPLOAD_FAILED", q) = 0
            ELSE /\ ImageRows("LOCAL_IMAGE_NOT_FOUND", q) = 0
                 /\ IF Hosted(q) THEN ImageRows("REMOTE_IMAGE_UPLOAD_FAILED", q) = 0
                    ELSE ImageRows("REMOTE_IMAGE_UPLOAD_FAILED", q) = 1
    /\ \A k \in DOMAIN cur.mapping :
         /\ cur.mapping[k].orig \in Refs
         /\ cur.mapping[k].local = resolveLocalImageSmart(cur.mapping[k].orig, imageIndex)
         /\ cur.mapping[k].url # NoUrl
         /\ cur.mapping[k].url = CacheGet(uploadCache, cur.mapping[k].local)
         /\ \A j \in DOMAIN cur.mapping : cur.mapping[j].orig = cur.mapping[k].orig => j = k
    /\ Count(log, LAMBDA r : r.file = Rel /\ r.type \in {"LOCAL_IMAGE_NOT_FOUND",
                                                         "REMOTE_IMAGE_UPLOAD_FAILED"})
         + Len(cur.mapping) = Cardinality(Refs)

C9_Witness ==
  /\ Uploaded
  /\ pc = "report"
  /\ cur.imageUrls # <<>>
  /\ cur.imageUrls[1] = PathA
  /\ ImageRows("REMOTE_IMAGE_UPLOAD_FAILED", PathA) = 1
  /\ Hosted(PathSlashA)
  /\ ~Hosted(PathA)

C11_BothSyntaxesRewritten ==
  Uploaded =>
    \A i, j \in DOMAIN cur.raw.occ :
      (/\ cur.raw.occ[i].form = "md"
       /\ cur.raw.occ[j].form = "img"
       /\ cur.raw.occ[i].path = cur.raw.occ[j].path
       /\ Hosted(cur.raw.occ[i].path))
        => cur.occ[i].url # NoUrl /\ cur.occ[i].url = cur.occ[j].url

C11_Witness ==
  /\ Uploaded
  /\ variant = "modular"
  /\ pc = "report"
  /\ cur.raw.occ = <<Occ("md", PathA), Occ("img", PathA)>>
  /\ Hosted(PathA)
  /\ cur.occ[1] = Occ("md", PathA)
  /\ cur.occ[2].url # NoUrl
  /\ files[cur.destAbs].occ = cur.occ

\* C12 as stated: for an ImageZoom whose path was resolved and uploaded, the
\* placeholder reaches the rewrite in the form it matches, and the written
\* document has an img tag with the hosted URL in the place of the ImageZoom.
C12_ImageZoomBecomesImg ==
  (Uploaded /\ pc \in {"copy", "report"}) =>
    \A i \in DOMAIN cur.raw.occ :
      (cur.raw.occ[i].form \in {"zoom", "zoomUseBase"} /\ Hosted(cur.raw.occ[i].path))
        => /\ files[cur.destAbs].occ[i].form = "imgtag"
           /\ files[cur.destAbs].occ[i].url # NoUrl

C12_Witness ==
  /\ Uploaded
  /\ pc = "report"
  /\ cur.raw.occ = <<Occ("zoom", PathA)>>
  /\ Hosted(PathA)
  /\ cur.mapping[1].url # NoUrl
  /\ files[cur.destAbs].occ = <<Occ("comment", PathA)>>

NewRows == SubSeq(log', Len(log) + 1, Len(log'))

UploadFailures(rows) == Count(rows, LAMBDA r : r.type = "REMOTE_IMAGE_UPLOAD_FAILED")

\* C13: in every step of a run, an entry of the upload cache stays as it is,
\* the cache holds at most one URL for a local file, every remote upload
\* issued in the step ends either in one new cache entry or in one
\* REMOTE_IMAGE_UPLOAD_FAILED row (never both), no such row is added for a
\* reference whose local file was in the cache before the step, and every
\* mapping entry of the step carries the URL the cache holds for its file.
C13_UploadedOnce ==
  [][/\ uploadCache \subseteq uploadCache'
     /\ \A e1, e2 \in uploadCache' : e1.local = e2.local => e1 = e2
     /\ uploads' - uploads
          = (Cardinality(uploadCache') - Cardinality(uploadCache)) + UploadFailures(NewRows)
     /\ \A k \in DOMAIN NewRows :
          NewRows[k].type = "REMOTE_IMAGE_UPLOAD_FAILED" =>
            CacheGet(uploadCache, resolveLocalImageSmart(NewRows[k].imgs[1], imageIndex)) = NoUrl
     /\ \A k \in DOMAIN cur'.mapping :
          /\ cur'.mapping[k].url = CacheGet(uploadCache', cur'.mapping[k].local)
          /\ CacheGet(uploadCache, cur'.mapping[k].local) # NoUrl =>
               cur'.mapping[k].url = CacheGet(uploadCache, cur'.mapping[k].local)
    ]_vars

C13_Witness ==
  /\ pc = "imports"
  /\ idx = 2
  /\ status[1] = "Converted"
  /\ uploads = 2
  /\ Cardinality(uploadCache) = 1
  /\ Len(cur.mapping) = 2
  /\ cur.mapping[1].orig # cur.mapping[2].orig
  /\ cur.mapping[1].url = cur.mapping[2].url
  /\ \E k \in DOMAIN imagesCsv : imagesCsv[k].file = allFiles[1] /\ imagesCsv[k].url = cur.mapping[1].url
  /\ UploadFailures(log) = 1

Written == pc \in {"copy", "report"}

HasScript(n) == \E i \in DOMAIN n.items : n.items[i].kind = "script"

HasHandler(n) == \E i \in DOMAIN n.items : n.items[i].on # <<>>

\* C14: the written text of a document holds no complete script block and no
\* on-handler attribute, in whatever node they were.
C14_NoScriptOrHandlerWritten ==
  Written =>
    \A i \in DOMAIN files[cur.destAbs].html :
      ~HasScript(files[cur.destAbs].html[i]) /\ ~HasHandler(files[cur.destAbs].html[i])

C14_Witness ==
  /\ Written
  /\ cur.raw.html = <<HtmlNode("none", <<Element(<<"p">>, <<"dq", "sq">>)>>)>>
  /\ files[cur.destAbs].html = <<HtmlNode("none", <<Element(<<"p">>, <<"sq">>)>>)>>
  /\ \E k \in DOMAIN log : log[k].type = "REMOVED_JS"

\* the keep predicate in the words of the description
KeepNames == {<<"T", "a", "b", "s">>, <<"T", "a", "b">>,
              <<"C", "a", "l", "l", "o", "u", "t">>}

Kept(n) ==
  \E i \in DOMAIN n.items :
    /\ n.items[i].kind = "element"
    /\ \/ ToLowerCase(n.items[i].name) \in TableTags
       \/ n.items[i].name \in KeepNames
       \/ Capitalized(n.items[i].name)

TabsDone == pc \in {"images", "imports", "logs", "mapping", "write", "copy", "report"}

HasItem(text) ==
  \E i, k, l, j \in DOMAIN text :
    /\ i < k /\ k < l /\ l < j
    /\ text[i].t = "Tabs" /\ text[k].t = "TabItem" /\ text[l].t = "/TabItem"
    /\ text[j].t = "/Tabs"

\* C16: the text the tabs transform returns is a fixed point of the transform,
\* and a text in which no <TabItem>...</TabItem> lies inside a <Tabs>...</Tabs>
\* is returned as it was.
C16_TabsTransformIdempotent ==
  TabsDone =>
    /\ transformDocusaurusTabsToTarget(cur.tabs) = cur.tabs
    /\ ~HasItem(cur.raw.tabs) => cur.tabs = cur.raw.tabs

C16_Witness ==
  /\ pc = "report"
  /\ cur.raw.tabs = <<TabsOpen(<<>>), TabItemOpen(<<ValueAttr>>), TabItemOpen(<<ValueAttr>>),
                      TabItemClose, TabsClose>>
  /\ cur.tabs = <<TabsOpen(<<>>), TabOpen(ValueV), TabItemOpen(<<ValueAttr>>), TabClose,
                  TabsClose>>
  /\ files[cur.destAbs].tabs = cur.tabs

\* the title by the stated precedence: the first of the item's own label, the
\* label of the values array for the item's value, and the value that is not
\* empty once the markup is taken out, else the word Tab
OwnAttr(attrs, name) ==
  LET k == FirstIndex({i \in DOMAIN attrs : attrs[i].name = name}, 1)
  IN IF k = 0 THEN <<>> ELSE attrs[k].val

NoMarkup(str) == SelectSeq(str, LAMBDA c : c # Markup)

MappedLabel(values, v) ==
  LET k == FirstIndex({i \in DOMAIN values : values[i].value = v}, 1)
  IN IF v = <<>> \/ k = 0 THEN <<>> ELSE values[k].label

StatedTitle(attrs, values) ==
  LET own == NoMarkup(OwnAttr(attrs, "label"))
      mapped == NoMarkup(MappedLabel(values, OwnAttr(attrs, "value")))
      value == NoMarkup(OwnAttr(attrs, "value"))
  IN OrElse(own, OrElse(mapped, OrElse(value, TabWord)))

\* C17: the title of the tab emitted for the item of a one-item block is the
\* title by the stated precedence (with the characters of an attribute escaped).
C17_TitleByLabelMapValue ==
  (TabsDone /\ cur.raw.tabs \in OneItemTexts) =>
    /\ cur.tabs[2].t = "Tab"
    /\ cur.tabs[2].title
         = escapeHtmlAttribute(StatedTitle(cur.raw.tabs[2].attrs, cur.raw.tabs[1].attrs))

C17_Witness ==
  /\ pc = "report"
  /\ cur.raw.tabs = <<TabsOpen(<<[value |-> ValueV, label |-> <<"x">>]>>),
                      TabItemOpen(<<ValueAttr, Attr("label", "dq", <<Markup, "&">>)>>),
                      TabItemClose, TabsClose>>
  /\ cur.tabs[2] = TabOpen(<<"x">>)
  /\ files[cur.destAbs].tabs = cur.tabs

\* the index.md the finalizer writes for a directory: the name of the
\* directory as title, the fixed fields, nothing behind the frontmatter
Landing(dir) ==
  [fm |-> [title |-> dir[Len(dir)], deprecated |-> FALSE, hidden |-> FALSE, robots |-> "index"],
   occ |-> <<>>, html |-> <<>>, tabs |-> <<>>, notes |-> <<>>]

LandingsKept ==
  /\ \A p \in DOMAIN files : p \in DOMAIN files' /\ files'[p] = files[p]
  /\ \A p \in DOMAIN files' \ DOMAIN files : p.name = IndexMd /\ files'[p] = Landing(p.dir)

\* a step in which the finalizer runs to its end
FinalizerDone == pc = "finalize" /\ pc' # "crashed" /\ ~pipelineFailed'

C19_NoManifestCreated ==
  [][pc = "finalize" =>
       /\ DOMAIN manifests' = DOMAIN manifests
       /\ \A p \in DOMAIN files' :
            p.name # IndexMd => p \in DOMAIN files /\ files'[p] = files[p]
       /\ dirs' = dirs
       /\ \A d \in DOMAIN manifests :
            manifests'[d] # manifests[d] => d \in Visited(dirs)]_vars

C19_Witness ==
  /\ pc \in {"finalizeReport", "pipelineReport"}
  /\ ~pipelineFailed
  /\ status = <<"Converted", "Converted">>
  /\ DOMAIN manifests = {DestRoot, <<OUT, SUB>>, <<OUT, Hidden>>}
  /\ manifests[DestRoot] = <<<<"s">>, <<"x">>>>
  /\ manifests[<<OUT, SUB>>] = <<<<"a">>>>
  /\ manifests[<<OUT, Hidden>>] = StaleItems
  /\ <<OUT, X>> \notin DOMAIN manifests

Escaped == pc = "crashed" \/ pipelineFailed

Terminated == pc \in {"done", "crashed"}

\* the exit status of the process: an unhandled rejection gives 1, the end of
\* the script 0
ExitStatus == IF pc = "crashed" THEN 1 ELSE 0

\* C20: once an exception has escaped the try block of the loop, the last row
\* of the audit log is a fatal entry, and the run ends with an exit status
\* that is not 0.
C20_FatalEntryThenNonZeroExit ==
  Escaped => /\ log # <<>> /\ log[Len(log)].type = "FATAL"
             /\ Terminated => ExitStatus # 0

C20_Witness ==
  /\ variant = "options"
  /\ pipelineFailed
  /\ pc = "done"
  /\ ExitStatus = 0
  /\ status = <<"Converted", "Failed">>
  /\ \A k \in DOMAIN log : log[k].type # "FATAL"
  /\ Len(reportFile) = 1

\* the place of a stage in the stated order of the stages of one document;
\* the steps between two stated stages lie between their places
StageRank(p) ==
  CASE p = "read" -> 10
    [] p = "prepass" -> 20
    [] p = "frontmatter" -> 30
    [] p = "parse" -> 40
    [] p = "tabs" -> 50
    [] p = "images" -> 60
    [] p = "imports" -> 70
    [] p = "logs" -> 74
    [] p = "mapping" -> 78
    [] p = "write" -> 90
    [] p = "copy" -> 95
    [] p = "report" -> 100
    [] OTHER -> 0

InLoop(p) == StageRank(p) > 0

\* C21: within one document every step leads to a later stage of the order
\* Read, Pre-pass, Parse+Rewrite, Serialize, Tabs, Images, Import-strip,
\* Frontmatter-wrap, Write, Report (or to the catch clause); the next document
\* starts at Read, and only from Report or from the catch clause.
C21_StagesInStatedOrder ==
  [][/\ (InLoop(pc) /\ InLoop(pc') /\ idx' = idx) => StageRank(pc') > StageRank(pc)
     /\ (idx # 0 /\ idx' # idx) => (pc \in {"report", "catch"} /\ pc' = "read")
    ]_vars

C21_Witness ==
  /\ variant = "options"
  /\ pc = "images"
  /\ RowsOf("REMOVED_IMPORTS", Rel) = 1
  /\ cur.occ = cur.raw.occ
  /\ cur.occ # <<>>

\* the place of a document in discovery order
DocIndex(file) == CHOOSE i \in DOMAIN allFiles' : allFiles'[i] = file

\* C22: in every step of a run the rows of the audit log stay as they are and
\* new rows come behind them, and the rows of a document lie in front of the
\* rows of every document discovered after it.
C22_LogAppendOnlyInDiscoveryOrder ==
  [][/\ IsPrefix(log, log')
     /\ \A k, l \in DOMAIN log' : k < l => DocIndex(log'[k].file) <= DocIndex(log'[l].file)
    ]_vars

C22_Witness ==
  /\ pc = "done"
  /\ Len(allFiles) = 2
  /\ RowsOf("REMOVED_IMPORTS", allFiles[1]) = 1
  /\ RowsOf("FAILED", allFiles[1]) = 1
  /\ RowsOf("REMOVED_JS", allFiles[2]) = 1
  /\ log[Len(log)].file = allFiles[2]
  /\ Len(log) >= 4

\* the collections of a document and the category of the row of each
CollectionRow ==
  [imports |-> "REMOVED_IMPORTS", html |-> "STRIPPED_HTML", js |-> "REMOVED_JS",
   mdx |-> "REMOVED_MDX"]

PerReference == {"LOCAL_IMAGE_NOT_FOUND", "REMOTE_IMAGE_UPLOAD_FAILED"}

Categories ==
  {CollectionRow[c] : c \in DOMAIN CollectionRow} \cup PerReference
    \cup {"IMAGES", "FAILED", "MOVED", "MOVE_DUPLICATE", "MOVE_DEST_MISSING", "MOVE_DEST_NOT_DIR"}

\* what the stages collect from a document, by its source
NonEmpty(doc) == doc.feats \cup HtmlFeats(doc.html)

RowExactlyWhenCollected(i) ==
  \A c \in DOMAIN CollectionRow :
    /\ RowsOf(CollectionRow[c], allFiles[i]) > 0 => c \in NonEmpty(srcFiles[allFiles[i]])
    /\ status[i] = "Converted" =>
         (RowsOf(CollectionRow[c], allFiles[i]) > 0 <=> c \in NonEmpty(srcFiles[allFiles[i]]))

\* C23 as stated: the log holds at most one row for a document and a
\* category, the image categories included, and a row of a collection exists
\* exactly when the collection of the document is not empty.
C23_OneRowPerCategory ==
  \A i \in DOMAIN allFiles :
    /\ \A t \in Categories : RowsOf(t, allFiles[i]) <= 1
    /\ RowExactlyWhenCollected(i)

\* C23: the log holds at most one row for a document and a category other
\* than the two per-reference image categories, and of those at most one row
\* for a document and a reference; a row of a collection is there only when
\* the collection of the document is not empty, and for a converted document
\* exactly then.
C23_OneRowPerCategoryOrReference ==
  \A i \in DOMAIN allFiles :
    /\ \A t \in Categories \ PerReference : RowsOf(t, allFiles[i]) <= 1
    /\ \A t \in PerReference : \A k, l \in DOMAIN log :
         (log[k].type = t /\ log[k].file = allFiles[i] /\ log[l] = log[k]) => k = l
    /\ RowExactlyWhenCollected(i)

C23_Witness ==
  /\ pc = "done"
  /\ Len(allFiles) = 2
  /\ status[1] = "Converted"
  /\ RowsOf("REMOTE_IMAGE_UPLOAD_FAILED", allFiles[1]) = 2
  /\ RowsOf("REMOVED_IMPORTS", allFiles[1]) = 1
  /\ RowsOf("REMOVED_JS", allFiles[1]) = 1
  /\ RowsOf("STRIPPED_HTML", allFiles[1]) = 1
  /\ NonEmpty(srcFiles[allFiles[2]]) = {}
  /\ status[2] = "Converted"
  /\ \A k \in DOMAIN log : log[k].file = allFiles[1]

TreeStagesDone ==
  pc \in {"tabs", "images", "imports", "logs", "mapping", "write", "copy", "report"}

\* the script blocks and the handlers the stripping stage took out of a node,
\* by the text before and after
RemovedScripts(raw, out) ==
  {i \in DOMAIN raw.items : raw.items[i].kind = "script" /\ out.items[i].kind # "script"}

RECURSIVE SumOver(_, _)
SumOver(f, S) ==
  IF S = {} THEN 0 ELSE LET x == CHOOSE y \in S : TRUE IN f[x] + SumOver(f, S \ {x})

RemovedHandlers(raw, out) ==
  SumOver([i \in DOMAIN raw.items |-> Len(raw.items[i].on) - Len(out.items[i].on)],
          DOMAIN raw.items)

EntriesOf(kind) == Count(cur.jsRemoved, LAMBDA e : e.entry = kind)

\* C24: the removed-script collection of a document has one entry for every
\* script block and every handler the stripping stage removed: as many
\* 'SCRIPT SRC' entries as removed scripts with a source URL, as many
\* 'INLINE HANDLER' entries as removed handlers, and a 'SCRIPT INLINE CODE'
\* entry for every other removed script.
C24_OneEntryPerRemoval ==
  TreeStagesDone =>
    LET raw == cur.raw.html[1]
        out == cur.html[1]
        scripts == RemovedScripts(raw, out)
    IN cur.raw.html # <<>> =>
         /\ EntriesOf("SCRIPT SRC")
              = Cardinality({i \in scripts : raw.items[i].src # <<>>})
         /\ EntriesOf("SCRIPT INLINE CODE")
              = Cardinality({i \in scripts : raw.items[i].src = <<>>})
         /\ EntriesOf("INLINE HANDLER") = RemovedHandlers(raw, out)
         /\ Len(cur.jsRemoved) = Cardinality(scripts) + RemovedHandlers(raw, out)

C24_Witness ==
  /\ pc = "report"
  /\ cur.raw.html = <<HtmlNode("none", <<Script(<<>>, <<>>)>>)>>
  /\ files[cur.destAbs].html = <<HtmlNode("none", <<ScriptRemoved>>)>>
  /\ cur.jsRemoved = <<>>
  /\ \A k \in DOMAIN log : log[k].type # "REMOVED_JS"

\* the resolution by tiers in the words of the description; withName tells
\* whether the bare file name counts as a path suffix of the second tier
SuffixFrom(ref, k) == JoinSlash(SubSeq(SplitSlash(ref), k, Len(SplitSlash(ref))))

InTable(index, rel) == \E i \in DOMAIN index : index[i] = rel

Similarity(index, i, ref) == longestCommonSuffix(AbsOf(index[i]), ref)

StatedResolve(reference, index, withName) ==
  LET ref == StripLeadingSlashes(reference)
      n == Len(SplitSlash(ref))
      suffixes == {k \in 2..(IF withName THEN n ELSE n - 1) : InTable(index, SuffixFrom(ref, k))}
      named == {i \in DOMAIN index : Basename(index[i]) = Basename(ref)}
      closest == {i \in named : \A j \in named : Similarity(index, j, ref) <= Similarity(index, i, ref)}
  IN IF reference = <<>> THEN <<>>
     ELSE IF InTable(index, ref) THEN AbsOf(ref)
     ELSE IF suffixes # {} THEN AbsOf(SuffixFrom(ref, Min(suffixes)))
     ELSE IF named # {} THEN AbsOf(index[Min(closest)])
     ELSE <<>>

ResolvedAs(withName) ==
  Uploaded =>
    \A q \in Refs :
      LET local == resolveLocalImageSmart(q, imageIndex)
      IN /\ local = StatedResolve(q, imageIndex, withName)
         /\ local # <<>> => \E i \in DOMAIN imageIndex : local = AbsOf(imageIndex[i])
         /\ \A k \in DOMAIN cur.mapping : cur.mapping[k].orig = q => cur.mapping[k].local = local
         /\ ImageRows("LOCAL_IMAGE_NOT_FOUND", q) = IF local = <<>> THEN 1 ELSE 0

\* C25 as stated: the reference is resolved to its exact match in the
\* relative-path table, else to the entry of its longest path suffix in the
\* table (the bare file name being the shortest one), else to the file of its
\* name with the longest common suffix, the first in index order on a tie,
\* else to nothing.
C25_LongestSuffixInTable == ResolvedAs(TRUE)

\* C25: the reference is resolved to its exact match in the relative-path
\* table, else to the entry of its longest proper path suffix of two or more
\* segments in the table, else to the file of its bare name with the longest
\* common character suffix with the reference, the first in index order on a
\* tie, else to nothing; what is returned is a file of the index.
C25_ResolvedByTiers == ResolvedAs(FALSE)

C25_Witness ==
  /\ Uploaded
  /\ pc = "report"
  /\ imageIndex = <<FileA, FileWXYA>>
  /\ cur.imageUrls = <<RefXYA>>
  /\ Len(cur.mapping) = 1
  /\ cur.mapping[1].local = AbsOf(FileWXYA)

\* the n-th of a set of positions
Nth(S, n) == CHOOSE x \in S : Cardinality({y \in S : y < x}) = n - 1

Positions(text, t) == {i \in DOMAIN text : text[i].t = t}

\* what lies between the n-th opening and the n-th closing of a kind of tag
BodyOf(text, open, close, n) ==
  SubSeq(text, Nth(Positions(text, open), n) + 1, Nth(Positions(text, close), n) - 1)

\* C26: for a block with at least one child item, the emitted container has
\* one tab for each child item of the block, in source order, and the body of
\* each tab is the body of its item, whatever the opening tag and the bodies
\* hold.
C26_OneTabPerItem ==
  (TabsDone /\ cur.raw.tabs \in BlockTexts) =>
    /\ Cardinality(Positions(cur.tabs, "Tab")) = Cardinality(Positions(cur.raw.tabs, "TabItem"))
    /\ Positions(cur.tabs, "TabItem") = {}
    /\ \A n \in 1..Cardinality(Positions(cur.raw.tabs, "TabItem")) :
         BodyOf(cur.tabs, "Tab", "/Tab", n) = BodyOf(cur.raw.tabs, "TabItem", "/TabItem", n)

C26_Witness ==
  /\ pc = "report"
  /\ cur.raw.tabs = <<TabsOpen(<<>>), TabItemOpen(<<ValueAttr>>), Piece("values"), Piece("{"),
                      Piece("}"), TabItemClose, TabItemOpen(<<>>), TabItemClose, TabsClose>>
  /\ cur.tabs = <<TabsOpen(<<>>), TabOpen(TabWord), TabClose, TabsClose>>
  /\ files[cur.destAbs].tabs = cur.tabs

\* the braces of the block from its first opening brace on, by counting
BraceDepth(marks, from, to) ==
  Cardinality({i \in from..to : marks[i].m = "{"})
    - Cardinality({i \in from..to : marks[i].m = "}"})

NeverBalances(marks) ==
  LET start == Min({i \in DOMAIN marks : marks[i].m = "{"})
  IN \A j \in start..Len(marks) : BraceDepth(marks, start, j) > 0

\* C27: for a block whose opening tag has a values attribute with balanced
\* braces, the end of the opening tag is the ">" that ends the tag itself,
\* whatever ">" and braces the values literal holds: the inner content is all
\* that follows the tag, every item gets its tab and the title comes from the
\* literal.  For an opening tag whose braces never balance in the block, no
\* end is found by counting and the first ">" of the block is used.
C27_TagEndsBehindValues ==
  (TabsDone /\ cur.raw.tabs \in BlockTexts) =>
    LET block == cur.raw.tabs
        marks == FlatMarks(block)
        found == extractValuesArrayFromOpeningTag(block)
    IN /\ (block[1].t = "Tabs" /\ block[1].attrs # <<>>) =>
            /\ found.openingTagEndIndex = Len(Marks(block[1]))
            /\ found.valuesArraySource = block[1].attrs
            /\ InnerContent(block) = SubSeq(block, 2, Len(block) - 1)
            /\ Cardinality(Positions(cur.tabs, "Tab"))
                 = Cardinality(Positions(block, "TabItem"))
            /\ cur.tabs[2] = TabOpen(<<"x">>)
       /\ (block[1].t = "TabsUnclosed" /\ NeverBalances(marks)) =>
            /\ found.openingTagEndIndex = 0
            /\ InnerContent(block)
                 = SubSeq(block, marks[Min({i \in DOMAIN marks : marks[i].m = ">"})].tok + 1,
                          Len(block) - 1)

C27_Witness ==
  /\ pc = "report"
  /\ cur.raw.tabs = <<TabsOpen(<<LabelMarkupX>>), TabItemOpen(<<ValueAttr>>), Piece("}"),
                      Piece("{"), TabItemClose, TabItemOpen(<<>>), TabItemClose, TabsClose>>
  /\ cur.tabs = <<TabsOpen(<<>>), TabOpen(<<"x">>), Piece("}"), Piece("{"), TabClose,
                  TabOpen(TabWord), TabClose, TabsClose>>
  /\ files[cur.destAbs].tabs = cur.tabs

PrePassDone ==
  pc \in {"frontmatter", "parse", "tabs", "images", "imports", "logs", "mapping", "write",
          "copy", "report"}

Callouts(text) == Cardinality({i \in DOMAIN text : text[i].t = CalloutClose.t})

\* C28: the text convertNoteTipBlocks returns is returned unchanged by a
\* second application, for texts of note, tip and info blocks and plain
\* lines: no callout is wrapped a second time and none is added.
C28_PrePassIdempotent ==
  PrePassDone =>
    /\ convertNoteTipBlocks(cur.notes) = cur.notes
    /\ Callouts(convertNoteTipBlocks(cur.notes)) = Callouts(cur.notes)

C28_Witness ==
  /\ pc = "report"
  /\ cur.raw.notes = <<Line("info", 0), Line("info", 0), Line("x", 0), Line(":::", 0),
                       Line(":::", 0)>>
  /\ cur.notes = <<CalloutOpen("info"), Line("info", 1), Line("x", 1), CalloutClose,
                   Line(":::", 0)>>
  /\ files[cur.destAbs].notes = cur.notes

\* C29: within one run a document is never written at a path at which a
\* document of this run was written before, at the destination or at the
\* mirror destination: distinct documents get distinct paths, also an .md and
\* an .mdx of one name, under flat output, and under move-mapping.
C29_NoPathWrittenTwice ==
  [][/\ (pc = "write" /\ pc' = "copy") => cur.destAbs \notin DOMAIN files
     /\ (pc = "copy" /\ pc' = "report" /\ cur.copyAbs # NoPath) =>
          cur.copyAbs \notin DOMAIN files]_vars

C29_Witness ==
  /\ pc = "report"
  /\ ~args.copy
  /\ Len(allFiles) = 2
  /\ idx = 2
  /\ status[1] = "Converted"
  /\ DOMAIN files = {cur.destAbs}
  /\ srcFiles[allFiles[1]].fm.title # srcFiles[allFiles[2]].fm.title
  /\ files[cur.destAbs].fm.title = srcFiles[allFiles[2]].fm.title

\* C30: a document that ends Failed has left nothing but its FAILED row (and
\* the failure count): no file at its destination or its mirror destination,
\* no other row of the audit log, no row of the images manifest and no entry
\* of the report.
C30_FailedLeavesOnlyItsRow ==
  \A i \in DOMAIN status :
    status[i] = "Failed" =>
      /\ DefaultDestAbs(allFiles[i]) \notin DOMAIN files
      /\ DefaultCopyAbs(allFiles[i]) \notin DOMAIN files
      /\ \A k \in DOMAIN log : log[k].file = allFiles[i] => log[k].type = "FAILED"
      /\ RowsOf("FAILED", allFiles[i]) = 1
      /\ \A k \in DOMAIN imagesCsv : imagesCsv[k].file # allFiles[i]
      /\ \A o \in DOMAIN reports : \A k \in DOMAIN reports[o] :
           reports[o][k].source # allFiles[i]

C30_Witness ==
  /\ pc = "done"
  /\ failed = 1
  /\ Len(allFiles) = 2
  /\ status[1] = "Failed"
  /\ DefaultDestAbs(allFiles[1]) \in DOMAIN files
  /\ DefaultCopyAbs(allFiles[1]) \notin DOMAIN files
  /\ RowsOf("REMOVED_IMPORTS", allFiles[1]) = 1
  /\ RowsOf("FAILED", allFiles[1]) = 1
  /\ \E k \in DOMAIN imagesCsv : imagesCsv[k].file = allFiles[1]
  /\ \A o \in DOMAIN reports : \A k \in DOMAIN reports[o] : reports[o][k].source # allFiles[1]

====
